---- MODULE Spec2Model ----
(***************************************************************************)
(* A model of the analytics action provider of agentic_web3                *)
(* (src/unnamed/part_002): the retry wrapper, the two time-windowed        *)
(* caches, token resolution, news aggregation and the risk scoring of the  *)
(* potential-rugpull-and-fraud-token-analysis action.                      *)
(*                                                                         *)
(* Each part of the provider has its own specification over its own        *)
(* variables (SpecRetry, SpecNews, SpecToken, SpecRisk, SpecBand); the     *)
(* variables of the other parts stay at their initial values.              *)
(***************************************************************************)
EXTENDS Integers, Sequences, FiniteSets, TLC

VARIABLES
    \* ---- withRetry (part_002:315-335)
    maxRetries,     \* the maxRetries argument
    delayMs,        \* the delayMs argument
    plan,           \* what the wrapped operation does on its i-th invocation
    attempt,        \* the loop variable
    lastError,      \* the lastError local
    calls,          \* how many times operation() has been invoked
    delays,         \* the setTimeout delays taken so far, in order
    retryPc,        \* "test" | "call" | "sleep" | "returned" | "thrown"
    retryOut,       \* the value returned, or the value thrown
    \* ---- the clock
    now,            \* Date.now(), in milliseconds
    ticks,          \* how many times the clock has advanced
    \* ---- the news cache and getAllNews (part_002:532-703)
    newsCache,      \* the newsCache module variable: NoCache or {data, timestamp}
    news,           \* the getAllNews calls in flight: their position and locals
    \* ---- merge, sort and deduplication of getAllNews as a function
    cryptoNews,     \* what fetchCryptoNews resolved to
    web3News,       \* what fetchWeb3News resolved to
    uniqueArticles, \* the uniqueArticles local
    dedupPc,        \* "start" | "done"
    \* ---- the token list cache, getTokenList and findToken (part_002:90-136)
    tokenListCache, \* the tokenListCache module variable: NoTokenList or a list
    lastCacheUpdate,\* the lastCacheUpdate module variable
    tokenCalls,     \* the findToken calls in flight: their position and locals
    \* ---- findToken's search as a function of the list and the term
    tokens,         \* the list getTokenList resolved to
    searchTerm,     \* the searchTerm argument
    found,          \* what findToken returns
    findPc,         \* "start" | "done"
    \* ---- the potential-rugpull-and-fraud-token-analysis action
    \*      (part_002:853-925)
    riskPc,         \* where the invoke function is
    holdersEmpty,   \* holders.length === 0
    holderAnalysis, \* the holderAnalysis local
    transactionAnalysis, \* the transactionAnalysis local
    txFetch,        \* what getRecentTransactions did for analyzeTransactionPatterns
    liquidityTxFetch, \* what getRecentTransactions did for analyzeLiquidity
    tokenData,      \* the tokenData local of analyzeLiquidity
    riskOut,        \* the response returned, or the Error thrown
    \* ---- the risk level banding as a function of the score
    bandScore,      \* an overallRiskScore
    bandLevel,      \* the riskLevel computed for it
    bandPc,         \* "start" | "done"
    \* ---- getOnChainTokenData (part_002:338-368) and
    \*      getTokenHoldersDistribution (part_002:371-397), alone or under
    \*      the withRetry of the existence check (part_002:857)
    ledgerFn,       \* the helper called
    addressValid,   \* isValidSolanaAddress(tokenAddress)
    outerRetry,     \* the helper is the operation of an enclosing withRetry
    outerAttempt,   \* attempt of the enclosing withRetry
    outerDelays,    \* the delays the enclosing withRetry has taken
    validations,    \* how many times the address has been validated
    rpcCalls,       \* how many ledger calls have been issued
    rpcDelays,      \* the delays taken between ledger calls of one helper call
    ledgerPc,       \* "idle" | "enter" | "inner" | "outerSleep" | "returned" | "thrown"
    ledgerOut,      \* what the call returned or threw
    \* ---- getRecentTransactions (part_002:194-242)
    signatures,     \* what getSignaturesForAddress resolved to
    txResults,      \* per signature: the entry its callback resolved to, if any
    completed,      \* the signatures' positions, in the order their fetches completed
    recentFailed,   \* the catch block has run
    recentPc,       \* "idle" | "start" | "fetching" | "returned" | "thrown"
    recentOut,      \* the list returned
    \* ---- a failure on its way out of an action's invoke function
    \*      (part_002:758-765, 784-827, 853-925, 949-987)
    facadeAction,   \* the action invoked
    facadeSite,     \* where the underlying failure is thrown
    cause,          \* the message of the underlying failure
    facadeMessage,  \* the message of the Error now in flight
    facadePc,       \* "idle" | "start" | "raised" | "inPriceData" | "inInvoke" | "thrown"
    \* ---- the get-address-activity action (part_002:784-827)
    activityNow,    \* Math.floor(Date.now() / 1000)
    timeRange,      \* params.timeRange ("undefined" when absent)
    activityTxs,    \* what getRecentTransactions resolved to
    filteredTransactions, \* the filteredTransactions local
    activityOut,    \* the analysis returned
    activityPc,     \* "idle" | "start" | "done"
    \* the chat page (src/app/chat/page.tsx)
    chatStored,     \* localStorage item chatMessageCount
    messageCount,   \* React state of ChatPage
    isThinking,     \* state of the useAgent hook
    alerted,        \* the limit alert has been shown
    sentToday,      \* calls of sendMessage made today
    chatPc,
    \* analyzeHolderConcentration on its own
    holdersArg,     \* its argument
    holderOut,      \* what it returned
    holderPc,
    \* analyzeTransactionPatterns and analyzeLiquidity on their own
    txList,         \* what getRecentTransactions resolved to
    mintInfo,       \* what getOnChainTokenData gave (or its failure)
    analysisOut,    \* the analysis returned
    analysisPc,
    \* analyzeTrendingTopics on its own
    wordFrequency,  \* its wordFrequency object
    topics,         \* what it returned
    trendingPc,
    \* the classification of one transaction by its log messages
    logMessages,    \* tx.meta.logMessages (or their absence)
    txType,
    classifyPc,
    \* the chat histories of the chat page and their copy in localStorage
    chatHistories,         \* React state: the chats, newest first
    currentChatId,         \* React state: the chat shown, or Undefined
    storedChatHistories,   \* localStorage item 'chatHistories'
    storedCurrentChatId,   \* localStorage item 'currentChatId', or Undefined
    saveChatsTimer,        \* the pending setTimeout of the chat-histories effect
    saveCurrentTimer,      \* the pending setTimeout of the current-chat effect
    dateNow,               \* Date.now(), the id of the next chat
    deletedChats,          \* the chats whose deletion the user has confirmed
    reloaded,              \* the page has just been reloaded
    unsavedLost            \* some reload came before a pending save had run

retryVars == <<maxRetries, delayMs, plan, attempt, lastError, calls, delays,
               retryPc, retryOut>>

clockVars == <<now, ticks>>

newsVars == <<newsCache, news>>

dedupVars == <<cryptoNews, web3News, uniqueArticles, dedupPc>>

tokenVars == <<tokenListCache, lastCacheUpdate, tokenCalls>>

findVars == <<tokens, searchTerm, found, findPc>>

riskVars == <<riskPc, holdersEmpty, holderAnalysis, transactionAnalysis,
              txFetch, liquidityTxFetch, tokenData, riskOut>>

bandVars == <<bandScore, bandLevel, bandPc>>

ledgerVars == <<ledgerFn, addressValid, outerRetry, outerAttempt, outerDelays,
                validations, rpcCalls, rpcDelays, ledgerPc, ledgerOut>>

recentVars == <<signatures, txResults, completed, recentFailed, recentPc, recentOut>>

facadeVars == <<facadeAction, facadeSite, cause, facadeMessage, facadePc>>

activityVars == <<activityNow, timeRange, activityTxs, filteredTransactions,
                  activityOut, activityPc>>

chatVars == <<chatStored, messageCount, isThinking, alerted, sentToday, chatPc>>

holderVars == <<holdersArg, holderOut, holderPc>>

analysisVars == <<txList, mintInfo, analysisOut, analysisPc>>

trendingVars == <<wordFrequency, topics, trendingPc>>

classifyVars == <<logMessages, txType, classifyPc>>

historyVars == <<chatHistories, currentChatId, storedChatHistories,
                 storedCurrentChatId, saveChatsTimer, saveCurrentTimer, dateNow,
                 deletedChats, reloaded, unsavedLost>>

vars == <<retryVars, clockVars, newsVars, dedupVars, tokenVars, findVars,
          riskVars, bandVars, ledgerVars, recentVars, facadeVars, activityVars, chatVars, holderVars, analysisVars, trendingVars, classifyVars, historyVars>>

\* What the actions of one part leave unchanged.
notRetry == <<clockVars, newsVars, dedupVars, tokenVars, findVars, riskVars, bandVars, ledgerVars, recentVars, facadeVars, activityVars, chatVars, holderVars, analysisVars, trendingVars, classifyVars, historyVars>>

notNews == <<retryVars, dedupVars, tokenVars, findVars, riskVars, bandVars, ledgerVars, recentVars, facadeVars, activityVars, chatVars, holderVars, analysisVars, trendingVars, classifyVars, historyVars>>

notDedup == <<retryVars, clockVars, newsVars, tokenVars, findVars, riskVars, bandVars, ledgerVars, recentVars, facadeVars, activityVars, chatVars, holderVars, analysisVars, trendingVars, classifyVars, historyVars>>

notToken == <<retryVars, newsVars, dedupVars, findVars, riskVars, bandVars, ledgerVars, recentVars, facadeVars, activityVars, chatVars, holderVars, analysisVars, trendingVars, classifyVars, historyVars>>

notFind == <<retryVars, clockVars, newsVars, dedupVars, tokenVars, riskVars, bandVars, ledgerVars, recentVars, facadeVars, activityVars, chatVars, holderVars, analysisVars, trendingVars, classifyVars, historyVars>>

notRisk == <<retryVars, clockVars, newsVars, dedupVars, tokenVars, findVars, bandVars, ledgerVars, recentVars, facadeVars, activityVars, chatVars, holderVars, analysisVars, trendingVars, classifyVars, historyVars>>

notRecent == <<retryVars, clockVars, newsVars, dedupVars, tokenVars, findVars,
               riskVars, bandVars, ledgerVars, facadeVars, activityVars, chatVars, holderVars, analysisVars, trendingVars, classifyVars, historyVars>>

notFacade == <<retryVars, clockVars, newsVars, dedupVars, tokenVars, findVars,
               riskVars, bandVars, ledgerVars, recentVars, activityVars, chatVars, holderVars, analysisVars, trendingVars, classifyVars, historyVars>>

notActivity == <<retryVars, clockVars, newsVars, dedupVars, tokenVars, findVars,
                 riskVars, bandVars, ledgerVars, recentVars, facadeVars, chatVars, holderVars, analysisVars, trendingVars, classifyVars, historyVars>>

\* The ledger helpers run withRetry: their actions set its variables.
notLedger == <<clockVars, newsVars, dedupVars, tokenVars, findVars, riskVars, bandVars, recentVars, facadeVars, activityVars, chatVars, holderVars, analysisVars, trendingVars, classifyVars, historyVars>>

notChat == <<retryVars, clockVars, newsVars, dedupVars, tokenVars, findVars,
              riskVars, bandVars, ledgerVars, recentVars, facadeVars, activityVars, holderVars, analysisVars, trendingVars, classifyVars, historyVars>>

notHolder == <<retryVars, clockVars, newsVars, dedupVars, tokenVars,
                findVars, riskVars, bandVars, ledgerVars, recentVars, facadeVars,
                activityVars, chatVars, analysisVars, trendingVars, classifyVars, historyVars>>

notAnalysis == <<retryVars, clockVars, newsVars, dedupVars, tokenVars,
                  findVars, riskVars, bandVars, ledgerVars, recentVars, facadeVars,
                  activityVars, chatVars, holderVars, trendingVars, classifyVars, historyVars>>

notTrending == <<retryVars, clockVars, newsVars, dedupVars, tokenVars,
                  findVars, riskVars, bandVars, ledgerVars, recentVars, facadeVars,
                  activityVars, chatVars, holderVars, analysisVars, classifyVars, historyVars>>

notClassify == <<retryVars, clockVars, newsVars, dedupVars, tokenVars,
                  findVars, riskVars, bandVars, ledgerVars, recentVars, facadeVars,
                  activityVars, chatVars, holderVars, analysisVars, trendingVars, historyVars>>

notHistory == <<retryVars, clockVars, newsVars, dedupVars, tokenVars,
                 findVars, riskVars, bandVars, ledgerVars, recentVars, facadeVars,
                 activityVars, chatVars, holderVars, analysisVars, trendingVars,
                 classifyVars>>

notBand == <<retryVars, clockVars, newsVars, dedupVars, tokenVars, findVars, riskVars, ledgerVars, recentVars, facadeVars, activityVars, chatVars, holderVars, analysisVars, trendingVars, classifyVars, historyVars>>

(***************************************************************************)
(* JavaScript values that an operation may throw or return.  ref is the    *)
(* identity of an object: two Error objects with the same message thrown   *)
(* by two invocations are different objects.                               *)
(***************************************************************************)
NULL == [kind |-> "null", text |-> "", ref |-> 0]

JsError(message, ref) == [kind |-> "Error", text |-> message, ref |-> ref]

JsStringValue(s) == [kind |-> "string", text |-> s, ref |-> 0]

JsUndefined == [kind |-> "undefined", text |-> "", ref |-> 0]

Value(v) == [kind |-> "value", text |-> v, ref |-> 0]

\* String(v) of JavaScript
JsString(v) ==
    CASE v.kind = "string" -> v.text
      [] v.kind = "undefined" -> "undefined"
      [] v.kind = "null" -> "null"
      [] v.kind = "Error" -> "Error: " \o v.text
      [] OTHER -> v.text

\* `error instanceof Error`
InstanceofError(v) == v.kind = "Error"

\* the object `new Error(message)` made inside withRetry
NewErrorRef == 99

----------------------------------------------------------------------------
(***************************************************************************)
(* withRetry                                                               *)
(***************************************************************************)
MaxRetriesBound == 4

DefaultMaxRetries == 3

DefaultDelayMs == 1000

\* The behaviours of one invocation of the wrapped operation.
Outcomes == {"ok", "throwErrorA", "throwErrorB", "throwString", "throwUndefined"}

\* What invocation number i of the operation throws (when it throws).
Thrown(outcome, i) ==
    CASE outcome = "throwErrorA" -> JsError("A", i)
      [] outcome = "throwErrorB" -> JsError("B", i)
      [] outcome = "throwString" -> JsStringValue("s")
      [] OTHER -> JsUndefined

\* What invocation number i of the operation resolves to (when it succeeds).
Resolved(i) == Value("result")

\* Mutant: every caught value is wrapped in a new Error.
NormalizeErrorAlwaysWrap(error) == JsError(JsString(error), NewErrorRef)

\* line 326: error instanceof Error ? error : new Error(String(error))
NormalizeError(error) ==
    IF InstanceofError(error) THEN error ELSE JsError(JsString(error), NewErrorRef)

\* Mutant: the loop stops one attempt early.
RetryLoopCondOffByOne(a, m) == a < m

\* line 322: attempt <= maxRetries
RetryLoopCond(a, m) == a <= m

\* Mutant: the delay doubles with every attempt.
BackoffDelayExponential(d, a) == d * 2 ^ (a - 1)

\* line 329: the delay before the next attempt
BackoffDelay(d, a) == d * a

RetryIdle ==
    /\ maxRetries = 0
    /\ delayMs = DefaultDelayMs
    /\ plan = <<>>
    /\ attempt = 1
    /\ lastError = NULL
    /\ calls = 0
    /\ delays = <<>>
    /\ retryPc = "idle"
    /\ retryOut = NULL

InitRetryVars ==
    /\ maxRetries \in 0..MaxRetriesBound
    /\ delayMs \in {DefaultDelayMs, 2 * DefaultDelayMs}
    /\ plan \in [1..maxRetries -> Outcomes]
    /\ attempt = 1
    /\ lastError = NULL
    /\ calls = 0
    /\ delays = <<>>
    /\ retryPc = "test"
    /\ retryOut = NULL

\* line 322: the loop condition; line 334 when the loop is left by it
RetryTest ==
    /\ retryPc = "test"
    /\ IF RetryLoopCond(attempt, maxRetries)
       THEN /\ retryPc' = "call"
            /\ retryOut' = retryOut
       ELSE /\ retryPc' = "thrown"
            /\ retryOut' = lastError
    /\ UNCHANGED <<maxRetries, delayMs, plan, attempt, lastError, calls, delays>>
    /\ UNCHANGED notRetry

\* lines 323-327: one invocation of the operation, and the catch block up
\* to the break
RetryCall ==
    /\ retryPc = "call"
    /\ calls' = calls + 1
    /\ IF plan[calls + 1] = "ok"
       THEN /\ retryPc' = "returned"
            /\ retryOut' = Resolved(calls + 1)
            /\ lastError' = lastError
       ELSE /\ lastError' = NormalizeError(Thrown(plan[calls + 1], calls + 1))
            /\ IF attempt = maxRetries
               THEN /\ retryPc' = "thrown"
                    /\ retryOut' = lastError'
               ELSE /\ retryPc' = "sleep"
                    /\ retryOut' = retryOut
    /\ UNCHANGED <<maxRetries, delayMs, plan, attempt, delays>>
    /\ UNCHANGED notRetry

\* lines 329-330 and the attempt++ of line 322
RetrySleep ==
    /\ retryPc = "sleep"
    /\ delays' = Append(delays, BackoffDelay(delayMs, attempt))
    /\ attempt' = attempt + 1
    /\ retryPc' = "test"
    /\ UNCHANGED <<maxRetries, delayMs, plan, lastError, calls, retryOut>>
    /\ UNCHANGED notRetry

NextRetry == RetryTest \/ RetryCall \/ RetrySleep

----------------------------------------------------------------------------
(***************************************************************************)
(* Claims about withRetry                                                  *)
(***************************************************************************)
RetryDone == retryPc \in {"returned", "thrown"}

\* The number of leading failures of the plan.
RECURSIVE LeadingFailures(_, _)
LeadingFailures(p, i) ==
    IF i > Len(p) \/ p[i] = "ok" THEN 0 ELSE 1 + LeadingFailures(p, i + 1)

\* C1: an operation that fails k < maxRetries times and then succeeds makes
\* withRetry return the success value after exactly k+1 invocations; an
\* operation that fails on every attempt is invoked exactly maxRetries times
\* and withRetry then throws.
C1_RetryCounts ==
    /\ calls <= maxRetries
    /\ RetryDone =>
         LET k == LeadingFailures(plan, 1) IN
         IF k < maxRetries
         THEN retryPc = "returned" /\ calls = k + 1 /\ retryOut = Resolved(k + 1)
         ELSE retryPc = "thrown" /\ calls = maxRetries

C1_Witness ==
    /\ retryPc = "returned"
    /\ maxRetries = 3
    /\ calls = 3
    /\ LeadingFailures(plan, 1) = 2

----------------------------------------------------------------------------
(***************************************************************************)
(* Strings.  toLowerCase on the strings the model uses.                    *)
(***************************************************************************)
ToLowerCase(s) ==
    CASE s = "Solana" -> "solana"
      [] s = "SOLANA" -> "solana"
      [] s = "Ether" -> "ether"
      [] s = "Abc" -> "abc"
      [] s = "ABC" -> "abc"
      [] s = "Xyz" -> "xyz"
      [] s = "Instruction: Swap" -> "instruction: swap"
      [] s = "ADD LIQUIDITY" -> "add liquidity"
      [] s = "MintNft" -> "mintnft"
      [] s = "Instruction: Transfer" -> "instruction: transfer"
      [] s = "TokenSwap" -> "tokenswap"
      [] OTHER -> s

----------------------------------------------------------------------------
(***************************************************************************)
(* News aggregation: merge, sort, deduplicate, trending topics             *)
(***************************************************************************)
\* A NewsArticle (lines 271-280), with publishedAt as the time
\* new Date(publishedAt).getTime() gives.  The summary is empty.
Article(title, url, publishedAt, source) ==
    [title |-> title, url |-> url, publishedAt |-> publishedAt, source |-> source]

\* line 674: [...cryptoNews, ...web3News]
Merge(a, b) == a \o b

\* Array.prototype.sort is stable: an element goes after every element
\* placed before it that the comparator does not put behind it.
RECURSIVE InsertByPublishedAt(_, _, _)
InsertByPublishedAt(sorted, x, i) ==
    IF i > Len(sorted) THEN Append(sorted, x)
    ELSE IF sorted[i].publishedAt < x.publishedAt
         THEN SubSeq(sorted, 1, i - 1) \o <<x>> \o SubSeq(sorted, i, Len(sorted))
         ELSE InsertByPublishedAt(sorted, x, i + 1)

\* line 675: sort((a, b) => time(b.publishedAt) - time(a.publishedAt))
RECURSIVE SortByPublishedAtDesc(_)
SortByPublishedAtDesc(s) ==
    IF s = <<>> THEN <<>>
    ELSE InsertByPublishedAt(SortByPublishedAtDesc(SubSeq(s, 1, Len(s) - 1)),
                             s[Len(s)], 1)

\* Mutant: the duplicate test compares titles as they are.
SameArticleCaseSensitive(a, article) ==
    a.title = article.title \/ a.url = article.url

\* lines 679-680: the predicate of findIndex
SameArticle(a, article) ==
    ToLowerCase(a.title) = ToLowerCase(article.title) \/ a.url = article.url

\* line 678: self.findIndex(...), 1-based; the article itself always matches
FindIndex(self, article) ==
    CHOOSE i \in 1..Len(self) :
        /\ SameArticle(self[i], article)
        /\ \A j \in 1..(i - 1) : ~SameArticle(self[j], article)

RECURSIVE FilterFirstOccurrence(_, _)
FilterFirstOccurrence(self, index) ==
    IF index > Len(self) THEN <<>>
    ELSE (IF index = FindIndex(self, self[index]) THEN <<self[index]>> ELSE <<>>)
         \o FilterFirstOccurrence(self, index + 1)

\* Mutant: the articles are deduplicated in merge order, without sorting.
AllArticlesUnsorted(a, b) == Merge(a, b)

\* lines 674-675: allArticles
AllArticles(a, b) == SortByPublishedAtDesc(Merge(a, b))

\* lines 677-682: uniqueArticles
UniqueArticles(allArticles) == FilterFirstOccurrence(allArticles, 1)

\* line 641
StopWords == {"the", "a", "an", "and", "or", "but", "in", "on", "at", "to",
              "for", "with", "by", "about", "as", "of"}

\* lines 644-647: the words of one article that are counted.  The text is
\* the title, one word, followed by a space and the empty summary.
ArticleWords(article) ==
    LET word == ToLowerCase(article.title) IN
    IF Len(word) > 3 /\ word \notin StopWords THEN <<word>> ELSE <<>>

RECURSIVE AllWords(_)
AllWords(articles) ==
    IF articles = <<>> THEN <<>>
    ELSE ArticleWords(Head(articles)) \o AllWords(Tail(articles))

\* line 640: wordFrequency, as its keys in the order they were created and
\* their counts
EmptyFrequency == [keys |-> <<>>, counts |-> <<>>]

KeyIndex(wf, w) ==
    LET hits == {i \in 1..Len(wf.keys) : wf.keys[i] = w}
    IN IF hits = {} THEN 0 ELSE CHOOSE i \in hits : TRUE

\* line 650: wordFrequency[word] = (wordFrequency[word] || 0) + 1
CountWord(wf, w) ==
    LET i == KeyIndex(wf, w) IN
    IF i = 0
    THEN [keys |-> Append(wf.keys, w),
          counts |-> Append(wf.counts, 1)]
    ELSE [wf EXCEPT !.counts[i] = @ + 1]

\* lines 649-651
RECURSIVE CountWords(_, _)
CountWords(wf, words) ==
    IF words = <<>> THEN wf
    ELSE CountWords(CountWord(wf, Head(words)), Tail(words))

\* The number a key is the canonical decimal form of, when it is an array
\* index; -1 for every other key.
ArrayIndex(w) ==
    CASE w = "1000" -> 1000
      [] w = "2024" -> 2024
      [] OTHER -> -1

\* The order of the own property keys of an object: the array indices in
\* ascending numeric order, then the other strings in creation order.
PropertyBefore(wf, i, j) ==
    LET a == ArrayIndex(wf.keys[i])
        b == ArrayIndex(wf.keys[j])
    IN IF a >= 0 /\ b >= 0 THEN a < b
       ELSE IF a >= 0 \/ b >= 0 THEN a >= 0
       ELSE i < j

RECURSIVE OwnPropertyKeys(_, _)
OwnPropertyKeys(wf, S) ==
    IF S = {} THEN <<>>
    ELSE LET i == CHOOSE i \in S :
                      \A j \in S \ {i} : PropertyBefore(wf, i, j)
         IN <<i>> \o OwnPropertyKeys(wf, S \ {i})

\* line 654: Object.entries(wordFrequency)
ObjectEntries(wf) ==
    LET order == OwnPropertyKeys(wf, 1..Len(wf.keys)) IN
    [k \in 1..Len(order) |->
        [word |-> wf.keys[order[k]], count |-> wf.counts[order[k]]]]

RECURSIVE InsertByCount(_, _, _)
InsertByCount(sorted, entry, i) ==
    IF i > Len(sorted) THEN Append(sorted, entry)
    ELSE IF sorted[i].count < entry.count
         THEN SubSeq(sorted, 1, i - 1) \o <<entry>> \o SubSeq(sorted, i, Len(sorted))
         ELSE InsertByCount(sorted, entry, i + 1)

\* line 655: sort(([,a], [,b]) => b - a), a stable sort
RECURSIVE SortByCountDesc(_)
SortByCountDesc(entries) ==
    IF entries = <<>> THEN <<>>
    ELSE InsertByCount(SortByCountDesc(SubSeq(entries, 1, Len(entries) - 1)),
                       entries[Len(entries)], 1)

TrendingLimit == 5

\* lines 654-657
TrendingTopics(wf) ==
    LET ranked == SortByCountDesc(ObjectEntries(wf))
        n == IF Len(ranked) < TrendingLimit THEN Len(ranked) ELSE TrendingLimit
    IN [k \in 1..n |-> ranked[k].word]

\* lines 639-658
AnalyzeTrendingTopics(articles) ==
    TrendingTopics(CountWords(EmptyFrequency, AllWords(articles)))

\* lines 686-691: the NewsResponse built from the two providers' articles at
\* time `at` (lastUpdated is new Date() at that moment)
NewsResponse(a, b, at) ==
    LET unique == UniqueArticles(AllArticles(a, b)) IN
    [articles |-> unique,
     totalResults |-> Len(unique),
     lastUpdated |-> at,
     trendingTopics |-> AnalyzeTrendingTopics(unique)]

----------------------------------------------------------------------------
(***************************************************************************)
(* Deduplication as a function of the two providers' articles              *)
(***************************************************************************)
MaxArticles == 3

MaxPublishedAt == 2

Titles == {"Solana", "SOLANA", "Ether"}

Urls == {"u1", "u2"}

ArticlesOf(source) ==
    {Article(t, u, p, source) : t \in Titles, u \in Urls, p \in 1..MaxPublishedAt}

SeqsUpTo(S, n) == UNION {[1..k -> S] : k \in 0..n}

DedupIdle ==
    /\ cryptoNews = <<>>
    /\ web3News = <<>>
    /\ uniqueArticles = <<>>
    /\ dedupPc = "idle"

InitDedupVars ==
    /\ cryptoNews \in SeqsUpTo(ArticlesOf("CryptoCompare"), MaxArticles)
    /\ web3News \in SeqsUpTo(ArticlesOf("NewsAPI"), MaxArticles - Len(cryptoNews))
    /\ uniqueArticles = <<>>
    /\ dedupPc = "start"

\* lines 674-682
Deduplicate ==
    /\ dedupPc = "start"
    /\ uniqueArticles' = UniqueArticles(AllArticles(cryptoNews, web3News))
    /\ dedupPc' = "done"
    /\ UNCHANGED <<cryptoNews, web3News>>
    /\ UNCHANGED notDedup

NextDedup == Deduplicate

----------------------------------------------------------------------------
(***************************************************************************)
(* The news cache and getAllNews                                           *)
(***************************************************************************)
NEWS_CACHE_DURATION == 300000

MaxTicks == 3

MaxNewsCalls == 2

NewsCalls == 1..MaxNewsCalls

\* line 536: newsCache = null
NoCache == [isNull |-> TRUE]

NoResponse == [isNull |-> TRUE]

\* How far the clock may move between two steps of the program.
NewsTickSteps == {1, NEWS_CACHE_DURATION - 1}

\* What a provider's endpoint may answer: a failure (a missing API key, a
\* non-ok status, a network error), or a list of articles.
CryptoAnswers ==
    {[failed |-> TRUE, articles |-> <<>>],
     [failed |-> FALSE, articles |-> <<Article("Solana", "u1", 2, "CryptoCompare")>>]}

Web3Answers ==
    {[failed |-> TRUE, articles |-> <<>>],
     [failed |-> FALSE, articles |-> <<Article("SOLANA", "u2", 3, "NewsAPI"),
                                      Article("Ether", "u1", 1, "NewsAPI")>>]}

\* lines 540-585 and 588-636: what fetchCryptoNews and fetchWeb3News resolve
\* to.  Every failure is caught (lines 581-584, 632-635) and becomes [].
FetchProvider(answer) == IF answer.failed THEN <<>> ELSE answer.articles

\* Mutant: an entry that has reached NEWS_CACHE_DURATION is still served.
NewsCacheFreshInclusive(cache, t) ==
    ~cache.isNull /\ (t - cache.timestamp) <= NEWS_CACHE_DURATION

\* line 664: newsCache && (now - newsCache.timestamp) < NEWS_CACHE_DURATION
NewsCacheFresh(cache, t) ==
    ~cache.isNull /\ (t - cache.timestamp) < NEWS_CACHE_DURATION

NewsCallIdle ==
    [pc |-> "idle", now |-> 0, fetched |-> FALSE, cryptoFailed |-> FALSE,
     web3Failed |-> FALSE, out |-> NoResponse]

ClockInit ==
    /\ now = 0
    /\ ticks = 0

NewsIdle ==
    /\ newsCache = NoCache
    /\ news = [r \in NewsCalls |-> NewsCallIdle]

InitNewsVars == NewsIdle

\* A call that has its result hands it to its caller before anything else
\* runs: the code after getAllNews returns has no await.
NoNewsCallDone == \A r \in NewsCalls : news[r].pc # "done"

\* The clock advances.
NewsTick ==
    /\ NoNewsCallDone
    /\ ticks < MaxTicks
    /\ \E d \in NewsTickSteps : now' = now + d
    /\ ticks' = ticks + 1
    /\ UNCHANGED newsVars
    /\ UNCHANGED notNews

\* lines 662-672: getAllNews up to its await.  A fresh cache entry is
\* returned; otherwise both providers are called.
NewsStart(r) ==
    /\ NoNewsCallDone
    /\ news[r].pc = "idle"
    /\ IF NewsCacheFresh(newsCache, now)
       THEN news' = [news EXCEPT ![r] =
                [NewsCallIdle EXCEPT !.pc = "done", !.now = now,
                                     !.out = newsCache.data]]
       ELSE news' = [news EXCEPT ![r] =
                [NewsCallIdle EXCEPT !.pc = "fetching", !.now = now,
                                     !.fetched = TRUE]]
    /\ UNCHANGED <<now, ticks, newsCache>>
    /\ UNCHANGED notNews

\* lines 669-698: both providers have settled; the response is built,
\* written to the cache with the `now` read at line 662, and returned.
NewsComplete(r) ==
    /\ NoNewsCallDone
    /\ news[r].pc = "fetching"
    /\ \E a \in CryptoAnswers, b \in Web3Answers :
         LET response == NewsResponse(FetchProvider(a), FetchProvider(b), now) IN
         /\ newsCache' = [isNull |-> FALSE, data |-> response,
                          timestamp |-> news[r].now]
         /\ news' = [news EXCEPT ![r].pc = "done", ![r].out = response,
                                 ![r].cryptoFailed = a.failed,
                                 ![r].web3Failed = b.failed]
    /\ UNCHANGED <<now, ticks>>
    /\ UNCHANGED notNews

\* The caller has taken the result of the call.
NewsReturn(r) ==
    /\ news[r].pc = "done"
    /\ news' = [news EXCEPT ![r] = NewsCallIdle]
    /\ UNCHANGED <<now, ticks, newsCache>>
    /\ UNCHANGED notNews

NextNews ==
    \/ NewsTick
    \/ \E r \in NewsCalls : NewsStart(r)
    \/ \E r \in NewsCalls : NewsComplete(r)
    \/ \E r \in NewsCalls : NewsReturn(r)

----------------------------------------------------------------------------
(***************************************************************************)
(* findToken's search                                                      *)
(***************************************************************************)
\* A CoinGeckoToken (lines 67-71)
Token(id, symbol, name) == [id |-> id, symbol |-> symbol, name |-> name]

\* The result of findToken when nothing matches (null).
NoToken == Token("", "", "")

\* Array.prototype.find: the first element of s that satisfies Test, or
\* NoToken.
FindFirst(s, Test(_)) ==
    IF \E i \in 1..Len(s) : Test(s[i])
    THEN s[CHOOSE i \in 1..Len(s) : Test(s[i]) /\ \A j \in 1..(i - 1) : ~Test(s[j])]
    ELSE NoToken

\* lines 126-135: the search of findToken in the list getTokenList gave
FindTokenIn(list, term) ==
    LET normalizedSearch == ToLowerCase(term)
        IdIs(token) == token.id = normalizedSearch
        SymbolIs(token) == ToLowerCase(token.symbol) = normalizedSearch
        NameIs(token) == ToLowerCase(token.name) = normalizedSearch
        exactMatch == FindFirst(list, IdIs)
        symbolMatch == FindFirst(list, SymbolIs)
        nameMatch == FindFirst(list, NameIs)
    IN IF exactMatch # NoToken THEN exactMatch
       ELSE IF symbolMatch # NoToken THEN symbolMatch
       ELSE nameMatch

MaxTokens == 2

TokenIds == {"abc", "Abc", "xyz"}

TokenSymbols == {"abc", "ABC"}

TokenNames == {"Abc", "Xyz"}

SearchTerms == {"abc", "Abc", "ABC", "xyz", "Xyz"}

AllTokens == {Token(i, y, n) : i \in TokenIds, y \in TokenSymbols, n \in TokenNames}

FindIdle ==
    /\ tokens = <<>>
    /\ searchTerm = ""
    /\ found = NoToken
    /\ findPc = "idle"

InitFindVars ==
    /\ tokens \in SeqsUpTo(AllTokens, MaxTokens)
    /\ searchTerm \in SearchTerms
    /\ found = NoToken
    /\ findPc = "start"

\* lines 126-135
FindToken ==
    /\ findPc = "start"
    /\ found' = FindTokenIn(tokens, searchTerm)
    /\ findPc' = "done"
    /\ UNCHANGED <<tokens, searchTerm>>
    /\ UNCHANGED notFind

NextFind == FindToken

----------------------------------------------------------------------------
(***************************************************************************)
(* The token list cache, getTokenList and findToken                        *)
(***************************************************************************)
CACHE_DURATION == 3600000

MaxTokenCalls == 2

TokenCalls == 1..MaxTokenCalls

\* line 91: tokenListCache = null
NoTokenList == [isNull |-> TRUE]

TokenTickSteps == {1, CACHE_DURATION - 1}

\* What the coins/list endpoint may answer: a failure (a network error, a
\* non-ok status, a body that is not JSON), or a list.
CoinListAnswers ==
    {[failed |-> TRUE, message |-> "HTTP error! status: 429", list |-> <<>>],
     [failed |-> FALSE, message |-> "", list |-> <<Token("abc", "ABC", "Abc")>>],
     [failed |-> FALSE, message |-> "",
      list |-> <<Token("xyz", "abc", "Xyz"), Token("abc", "ABC", "Abc")>>]}

\* line 99: tokenListCache && (now - lastCacheUpdate) < CACHE_DURATION
TokenCacheFresh(cache, updated, t) ==
    ~cache.isNull /\ (t - updated) < CACHE_DURATION

TokenCallIdle ==
    [pc |-> "idle", now |-> 0, searchTerm |-> "", fetched |-> FALSE,
     failed |-> FALSE, out |-> NoToken, error |-> NULL]

TokenIdle ==
    /\ tokenListCache = NoTokenList
    /\ lastCacheUpdate = 0
    /\ tokenCalls = [r \in TokenCalls |-> TokenCallIdle]

InitTokenVars == TokenIdle

\* A call that has its result hands it to its caller before anything else
\* runs.
NoTokenCallDone == \A r \in TokenCalls : tokenCalls[r].pc # "done"

\* The clock advances.
TokenTick ==
    /\ NoTokenCallDone
    /\ ticks < MaxTicks
    /\ \E d \in TokenTickSteps : now' = now + d
    /\ ticks' = ticks + 1
    /\ UNCHANGED tokenVars
    /\ UNCHANGED notToken

\* lines 125, 97-109: findToken calls getTokenList, which returns a fresh
\* cached list (findToken then searches it) or starts the fetch.
TokenStart(r) ==
    /\ NoTokenCallDone
    /\ tokenCalls[r].pc = "idle"
    /\ \E term \in SearchTerms :
         IF TokenCacheFresh(tokenListCache, lastCacheUpdate, now)
         THEN tokenCalls' = [tokenCalls EXCEPT ![r] =
                 [TokenCallIdle EXCEPT !.pc = "done", !.now = now,
                                       !.searchTerm = term,
                                       !.out = FindTokenIn(tokenListCache.list, term)]]
         ELSE tokenCalls' = [tokenCalls EXCEPT ![r] =
                 [TokenCallIdle EXCEPT !.pc = "fetching", !.now = now,
                                       !.searchTerm = term, !.fetched = TRUE]]
    /\ UNCHANGED <<now, ticks, tokenListCache, lastCacheUpdate>>
    /\ UNCHANGED notToken

\* Mutant: `now` is shared by the calls in flight instead of being a local
\* of each call, so a settling fetch stores the time of the latest call.
StartedAtShared(callRecords, r) ==
    LET inFlight == {q \in DOMAIN callRecords : callRecords[q].pc = "fetching"}
    IN CHOOSE t \in {callRecords[q].now : q \in inFlight} :
           \A q \in inFlight : callRecords[q].now <= t

\* line 97: const now = Date.now(), a local of call r, read again at line
\* 116 after the await.
StartedAt(callRecords, r) == callRecords[r].now

\* lines 111-120 and 126-135: the fetch has settled.  A list is stored with
\* the `now` read at line 97 and searched; a failure is rethrown with a
\* prefix and leaves the cache alone.
TokenSettle(r) ==
    /\ NoTokenCallDone
    /\ tokenCalls[r].pc = "fetching"
    /\ \E a \in CoinListAnswers :
         IF a.failed
         THEN /\ tokenCalls' = [tokenCalls EXCEPT ![r].pc = "done", ![r].failed = TRUE,
                  ![r].error = JsError("Failed to fetch token list: " \o a.message,
                                       NewErrorRef)]
              /\ UNCHANGED <<tokenListCache, lastCacheUpdate>>
         ELSE /\ tokenListCache' = [isNull |-> FALSE, list |-> a.list]
              /\ lastCacheUpdate' = StartedAt(tokenCalls, r)
              /\ tokenCalls' = [tokenCalls EXCEPT ![r].pc = "done",
                  ![r].out = FindTokenIn(a.list, tokenCalls[r].searchTerm)]
    /\ UNCHANGED <<now, ticks>>
    /\ UNCHANGED notToken

\* The caller has taken the result of the call.
TokenReturn(r) ==
    /\ tokenCalls[r].pc = "done"
    /\ tokenCalls' = [tokenCalls EXCEPT ![r] = TokenCallIdle]
    /\ UNCHANGED <<now, ticks, tokenListCache, lastCacheUpdate>>
    /\ UNCHANGED notToken

NextToken ==
    \/ TokenTick
    \/ \E r \in TokenCalls : TokenStart(r)
    \/ \E r \in TokenCalls : TokenSettle(r)
    \/ \E r \in TokenCalls : TokenReturn(r)

----------------------------------------------------------------------------
(***************************************************************************)
(* Risk scoring.  JavaScript numbers are modelled exactly: a percentage is *)
(* a ratio num/den (den = 0 is NaN), a SOL amount is a number of tenths of *)
(* a SOL (the balances drawn are multiples of 100,000,000 lamports, and    *)
(* dividing them by LAMPORTS_PER_SOL is exact), and every comparison is    *)
(* the comparison of the exact values.  On the balances, amounts and       *)
(* timestamps this model draws, the floating-point comparisons of the code *)
(* give the same answers.                                                  *)
(***************************************************************************)
\* one SOL, in the unit of the amounts
SOL == 10

SECONDS_PER_DAY == 86400

Ratio(num, den) == [num |-> num, den |-> den]

\* ratio > k, false for NaN
RatioExceeds(ratio, k) == ratio.den # 0 /\ ratio.num > k * ratio.den

RECURSIVE SumSeq(_)
SumSeq(s) == IF s = <<>> THEN 0 ELSE Head(s) + SumSeq(Tail(s))

Abs(x) == IF x < 0 THEN -x ELSE x

\* Math.max(0, score)
Max0(score) == IF score < 0 THEN 0 ELSE score

\* lines 386-392: the holders made from the balances of the accounts that
\* getTokenLargestAccounts returned
HoldersOf(amounts) ==
    LET totalSupply == SumSeq(amounts) IN
    [i \in 1..Len(amounts) |->
        [balance |-> amounts[i], percentage |-> Ratio(100 * amounts[i], totalSupply)]]

\* The factors are the code's strings without the interpolated numbers.
Analysis(score, factors) == [score |-> score, factors |-> factors]

\* lines 410-416
TopHolderDeduction(holders) ==
    IF RatioExceeds(holders[1].percentage, 50)
    THEN Analysis(30, <<"Extreme concentration: Top holder owns">>)
    ELSE IF RatioExceeds(holders[1].percentage, 30)
         THEN Analysis(20, <<"High concentration: Top holder owns">>)
         ELSE Analysis(0, <<>>)

\* line 419: holders.slice(0, 10).reduce((sum, h) => sum + h.percentage, 0)
Top10Percentage(holders) ==
    LET n == IF Len(holders) < 10 THEN Len(holders) ELSE 10 IN
    Ratio(SumSeq([i \in 1..n |-> holders[i].percentage.num]), holders[1].percentage.den)

\* Mutant: the top 10 test is chained to the top holder test by an else,
\* so at most one of the two deductions is made.
Top10DeductionUnlessTopHolder(holderList) ==
    IF TopHolderDeduction(holderList).score > 0
    THEN Analysis(0, <<>>)
    ELSE IF RatioExceeds(Top10Percentage(holderList), 90)
         THEN Analysis(25, <<"Extreme top 10 concentration">>)
         ELSE IF RatioExceeds(Top10Percentage(holderList), 70)
              THEN Analysis(15, <<"High top 10 concentration">>)
              ELSE Analysis(0, <<>>)

\* lines 420-426
Top10Deduction(holders) ==
    IF RatioExceeds(Top10Percentage(holders), 90)
    THEN Analysis(25, <<"Extreme top 10 concentration">>)
    ELSE IF RatioExceeds(Top10Percentage(holders), 70)
         THEN Analysis(15, <<"High top 10 concentration">>)
         ELSE Analysis(0, <<>>)

\* lines 400-429
AnalyzeHolderConcentration(holders) ==
    IF Len(holders) = 0
    THEN Analysis(0, <<"No holder data available">>)
    ELSE LET top == TopHolderDeduction(holders)
             top10 == Top10Deduction(holders)
         IN Analysis(Max0(100 - top.score - top10.score), top.factors \o top10.factors)

\* Mutant: the NFT keywords are tested before the DeFi keywords.
TxTypeNftFirst(keywords) ==
    IF keywords \cap {"nft", "mint"} # {} THEN "NFT"
    ELSE IF keywords \cap {"swap", "liquidity"} # {} THEN "DeFi"
    ELSE IF keywords \cap {"token", "transfer"} # {} THEN "Token Transfer"
    ELSE "Unknown"

\* lines 214-224: the type of a transaction from the keywords its log
\* messages contain (no log messages: the empty set)
TxType(keywords) ==
    IF keywords \cap {"swap", "liquidity"} # {} THEN "DeFi"
    ELSE IF keywords \cap {"nft", "mint"} # {} THEN "NFT"
    ELSE IF keywords \cap {"token", "transfer"} # {} THEN "Token Transfer"
    ELSE "Unknown"

\* lines 226-234: the entry getRecentTransactions makes for a signature with
\* block time `blockTime` (0 for null: in every use of the timestamp, null
\* and 0 behave alike) and the transaction `tx` getTransaction gave for it
\* (isNull for null).  The amount is in tenths of a SOL.
TxEntry(blockTime, tx) ==
    IF tx.isNull
    THEN [timestamp |-> blockTime, type |-> "Unknown", amount |-> 0,
          programIds |-> {"undefined"}, status |-> "Success"]
    ELSE [timestamp |-> blockTime,
          type |-> TxType(tx.keywords),
          amount |-> IF tx.post # 0 THEN tx.post - tx.pre ELSE 0,
          programIds |-> tx.accountKeys,
          status |-> IF tx.err THEN "Failed" ELSE "Success"]

CountWhere(s, Test(_)) == Cardinality({i \in 1..Len(s) : Test(s[i])})

\* Mutant: the three tests are chained by else, so only the first deduction
\* that matches is made.
AnalyzeTransactionPatternsFirstMatch(transactions) ==
    LET n == Len(transactions)
        IsFailed(tx) == tx.status = "Failed"
        IsTransfer(tx) == tx.type = "Token Transfer"
        failedTxs == CountWhere(transactions, IsFailed)
        transfers == CountWhere(transactions, IsTransfer)
        timeSpan == IF n > 1 THEN transactions[1].timestamp - transactions[n].timestamp
                    ELSE 0
    IN IF 5 * failedTxs > n
       THEN Analysis(80, <<"High rate of failed transactions">>)
       ELSE IF transfers > 0 /\ 5 * transfers > 4 * n
       THEN Analysis(85, <<"Suspicious transaction pattern: High concentration of transfers">>)
       ELSE IF timeSpan > 0 /\ 10 * n > timeSpan
       THEN Analysis(90, <<"Unusual transaction frequency">>)
       ELSE Analysis(100, <<>>)

\* lines 432-471, given what getRecentTransactions resolved to
AnalyzeTransactionPatterns(transactions) ==
    LET n == Len(transactions)
        IsFailed(tx) == tx.status = "Failed"
        IsTransfer(tx) == tx.type = "Token Transfer"
        failedTxs == CountWhere(transactions, IsFailed)
        transfers == CountWhere(transactions, IsTransfer)
        \* failedTxs > n * 0.2
        failed == IF 5 * failedTxs > n
                  THEN Analysis(20, <<"High rate of failed transactions">>)
                  ELSE Analysis(0, <<>>)
        \* txTypes["Token Transfer"] > n * 0.8 (undefined > x is false)
        pattern == IF transfers > 0 /\ 5 * transfers > 4 * n
                   THEN Analysis(15, <<"Suspicious transaction pattern: High concentration of transfers">>)
                   ELSE Analysis(0, <<>>)
        timeSpan == IF n > 1 THEN transactions[1].timestamp - transactions[n].timestamp
                    ELSE 0
        \* timeSpan > 0 && n / timeSpan > 0.1
        rapid == IF timeSpan > 0 /\ 10 * n > timeSpan
                 THEN Analysis(10, <<"Unusual transaction frequency">>)
                 ELSE Analysis(0, <<>>)
    IN Analysis(Max0(100 - failed.score - pattern.score - rapid.score),
                failed.factors \o pattern.factors \o rapid.factors)

\* lines 482-491
VolumeDeduction(transactions) ==
    LET n == Len(transactions)
        totalVolume == SumSeq([i \in 1..n |-> Abs(transactions[i].amount)])
        count == IF n = 0 THEN 1 ELSE n
    IN \* avgVolume < 0.1
       IF 10 * totalVolume < count * SOL
       THEN Analysis(20, <<"Very low average transaction volume">>)
       ELSE \* avgVolume < 1
            IF totalVolume < count * SOL
            THEN Analysis(10, <<"Low average transaction volume">>)
            ELSE Analysis(0, <<>>)

\* lines 493-504.  txPerDay = (n / (timeSpan / 86400)) || 0 is Infinity for
\* timeSpan = 0 and negative for timeSpan < 0.
FrequencyDeduction(transactions) ==
    LET n == Len(transactions) IN
    IF n = 0 THEN Analysis(0, <<>>)
    ELSE LET timeSpan == transactions[1].timestamp - transactions[n].timestamp IN
         IF timeSpan # 0 /\ (timeSpan < 0 \/ n * SECONDS_PER_DAY < timeSpan)
         THEN Analysis(15, <<"Very low transaction frequency (less than 1 tx per day)">>)
         ELSE IF timeSpan # 0 /\ n * SECONDS_PER_DAY < 10 * timeSpan
              THEN Analysis(5, <<"Low transaction frequency">>)
              ELSE Analysis(0, <<>>)

\* Mutant: the mint authority deduction is added instead of subtracted.
MintAuthorityDeductionSignSlip(data) ==
    IF data.mintAuthority # "null"
    THEN Analysis(-25, <<"Active mint authority - token supply can be increased">>)
    ELSE Analysis(0, <<>>)

\* lines 506-509
MintAuthorityDeduction(data) ==
    IF data.mintAuthority # "null"
    THEN Analysis(25, <<"Active mint authority - token supply can be increased">>)
    ELSE Analysis(0, <<>>)

\* lines 511-514
FreezeAuthorityDeduction(data) ==
    IF data.freezeAuthority # "null"
    THEN Analysis(15, <<"Active freeze authority - accounts can be frozen">>)
    ELSE Analysis(0, <<>>)

\* lines 516-520
DiversityDeduction(transactions) ==
    LET uniqueAddresses == UNION {transactions[i].programIds : i \in 1..Len(transactions)}
    IN IF Cardinality(uniqueAddresses) < 3
       THEN Analysis(10, <<"Limited program interaction diversity">>)
       ELSE Analysis(0, <<>>)

\* lines 476-522, given the token data and the transactions fetched
AnalyzeLiquidity(data, transactions) ==
    LET volume == VolumeDeduction(transactions)
        frequency == FrequencyDeduction(transactions)
        mint == MintAuthorityDeduction(data)
        freeze == FreezeAuthorityDeduction(data)
        diversity == DiversityDeduction(transactions)
    IN Analysis(Max0(100 - volume.score - frequency.score - mint.score
                         - freeze.score - diversity.score),
                volume.factors \o frequency.factors \o mint.factors
                    \o freeze.factors \o diversity.factors)

\* lines 523-529: the catch block of analyzeLiquidity
LiquidityError(message) ==
    Analysis(0, <<"Error analyzing on-chain data: " \o message>>)

\* Mutant: the four scores are averaged.
OverallRiskScoreWithContract(holderScore, transactionScore, liquidityScore) ==
    (holderScore + transactionScore + liquidityScore + 100 + 2) \div 4

\* lines 873-877: Math.round(h * 0.4 + t * 0.3 + l * 0.3); Math.round rounds
\* a half up
OverallRiskScore(holderScore, transactionScore, liquidityScore) ==
    (4 * holderScore + 3 * transactionScore + 3 * liquidityScore + 5) \div 10

\* Mutant: the thresholds belong to the band below them.
RiskLevelInclusive(overallRiskScore) ==
    IF overallRiskScore <= 40 THEN "EXTREMELY HIGH"
    ELSE IF overallRiskScore <= 60 THEN "HIGH"
    ELSE IF overallRiskScore <= 80 THEN "MEDIUM"
    ELSE "LOW"

\* lines 904-911
RiskLevel(overallRiskScore) ==
    IF overallRiskScore < 40 THEN "EXTREMELY HIGH"
    ELSE IF overallRiskScore < 60 THEN "HIGH"
    ELSE IF overallRiskScore < 80 THEN "MEDIUM"
    ELSE "LOW"

\* lines 886-892: the warnings appended to the risk factors
Warnings(noHolders, transactionScore) ==
    (IF noHolders THEN <<"Warning: Could not fetch holder distribution data">> ELSE <<>>)
    \o (IF transactionScore = 0 THEN <<"Warning: Could not fetch transaction data">> ELSE <<>>)

\* lines 873-919: the response made from the three analyses
RiskResponse(noHolders, holder, transaction, liquidity) ==
    LET overallRiskScore == OverallRiskScore(holder.score, transaction.score, liquidity.score)
        allRiskFactors == holder.factors \o transaction.factors \o liquidity.factors
                          \o Warnings(noHolders, transaction.score)
    IN [isError |-> FALSE,
        riskScore |-> overallRiskScore,
        riskLevel |-> RiskLevel(overallRiskScore),
        detailedMetrics |->
            [liquidityScore |-> liquidity.score,
             holderConcentrationScore |-> holder.score,
             transactionPatternScore |-> transaction.score,
             contractRiskScore |-> 100,
             overallRiskScore |-> overallRiskScore,
             riskFactors |-> allRiskFactors]]

----------------------------------------------------------------------------
(***************************************************************************)
(* The ledger's answers to one risk analysis                               *)
(***************************************************************************)
MaxHolders == 20

MaxTxs == 2

\* getParsedAccountInfo, as getOnChainTokenData sees it: the call fails, no
\* token account is found, or the mint's authorities are returned.
MetaAnswers ==
    {[kind |-> "failed", message |-> "fetch failed", mintAuthority |-> "null", freezeAuthority |-> "null"],
     [kind |-> "missing", message |-> "Token account not found", mintAuthority |-> "null", freezeAuthority |-> "null"]}
    \cup {[kind |-> "ok", message |-> "", mintAuthority |-> m, freezeAuthority |-> f] :
             m \in {"null", "mintKey"}, f \in {"null", "freezeKey"}}

\* getTokenLargestAccounts: the balances of the largest accounts, largest
\* first: one top balance and n - 1 equal smaller ones.
HolderTops == {0, 1, 6, 40}

HolderRests == {0, 1, 4}

LargestAccounts ==
    {[i \in 1..a.n |-> IF i = 1 THEN a.top ELSE a.rest] :
        a \in {b \in [top : HolderTops, rest : HolderRests, n : 1..MaxHolders] :
                  b.rest <= b.top}}
    \cup {<<>>}

HolderAnswers ==
    {[failed |-> TRUE, amounts |-> <<>>]}
    \cup {[failed |-> FALSE, amounts |-> a] : a \in LargestAccounts}

\* The block times of the signatures (0: null).
BlockTimes == {0, 1, 6, 100001, 300001}

\* What getTransaction gives for a signature (the balances of the first
\* account before and after, in tenths of a SOL).
NullTx == [isNull |-> TRUE, keywords |-> {}, err |-> FALSE, post |-> 0, pre |-> 0,
           accountKeys |-> {}]

ParsedTxs ==
    {NullTx,
     [isNull |-> FALSE, keywords |-> {"transfer"}, err |-> TRUE,
      post |-> 0, pre |-> 5, accountKeys |-> {"p1"}],
     [isNull |-> FALSE, keywords |-> {"swap", "token"}, err |-> FALSE,
      post |-> 25, pre |-> 5, accountKeys |-> {"p1", "p2", "p3"}],
     [isNull |-> FALSE, keywords |-> {"token"}, err |-> FALSE,
      post |-> 5, pre |-> 10, accountKeys |-> {"p1", "p2"}]}

TxEntries == {TxEntry(t, tx) : t \in BlockTimes, tx \in ParsedTxs}

\* getRecentTransactions (lines 194-242): a failure becomes [] (line 240).
TxAnswers ==
    {[failed |-> TRUE, transactions |-> <<>>]}
    \cup {[failed |-> FALSE, transactions |-> l] : l \in SeqsUpTo(TxEntries, MaxTxs)}

----------------------------------------------------------------------------
(***************************************************************************)
(* The potential-rugpull-and-fraud-token-analysis action                   *)
(***************************************************************************)
NoAnalysis == Analysis(-1, <<>>)

NoTokenData == [kind |-> "none", message |-> "", mintAuthority |-> "null", freezeAuthority |-> "null"]

NoRiskOut == [isError |-> FALSE, riskScore |-> -1]

\* getRecentTransactions not called yet
NoTxFetch == [failed |-> FALSE, empty |-> FALSE]

RiskIdle ==
    /\ riskPc = "idle"
    /\ holdersEmpty = FALSE
    /\ holderAnalysis = NoAnalysis
    /\ transactionAnalysis = NoAnalysis
    /\ txFetch = NoTxFetch
    /\ liquidityTxFetch = NoTxFetch
    /\ tokenData = NoTokenData
    /\ riskOut = NoRiskOut

InitRiskVars ==
    /\ riskPc = "verify"
    /\ holdersEmpty = FALSE
    /\ holderAnalysis = NoAnalysis
    /\ transactionAnalysis = NoAnalysis
    /\ txFetch = NoTxFetch
    /\ liquidityTxFetch = NoTxFetch
    /\ tokenData = NoTokenData
    /\ riskOut = NoRiskOut

\* lines 855-864, 922-924: the existence check.  When getOnChainTokenData
\* keeps failing the action throws.
RiskVerify ==
    /\ riskPc = "verify"
    /\ \E a \in MetaAnswers :
         IF a.kind = "ok"
         THEN /\ riskPc' = "holders"
              /\ riskOut' = riskOut
         ELSE /\ riskPc' = "thrown"
              /\ riskOut' = [isError |-> TRUE,
                    message |-> "Error analyzing token risk: Unable to fetch token data."]
    /\ UNCHANGED <<holdersEmpty, holderAnalysis, transactionAnalysis, txFetch,
                   liquidityTxFetch, tokenData>>
    /\ UNCHANGED notRisk

\* lines 867-868: getTokenHoldersDistribution (a failure becomes [], line
\* 395) and analyzeHolderConcentration
RiskHolders ==
    /\ riskPc = "holders"
    /\ \E a \in HolderAnswers :
         LET holders == IF a.failed THEN <<>> ELSE HoldersOf(a.amounts) IN
         /\ holdersEmpty' = (Len(holders) = 0)
         /\ holderAnalysis' = AnalyzeHolderConcentration(holders)
    /\ riskPc' = "transactions"
    /\ UNCHANGED <<transactionAnalysis, txFetch, liquidityTxFetch, tokenData, riskOut>>
    /\ UNCHANGED notRisk

\* line 869: analyzeTransactionPatterns
RiskTransactions ==
    /\ riskPc = "transactions"
    /\ \E a \in TxAnswers :
         /\ transactionAnalysis' = AnalyzeTransactionPatterns(a.transactions)
         /\ txFetch' = [failed |-> a.failed, empty |-> Len(a.transactions) = 0]
    /\ riskPc' = "liquidityData"
    /\ UNCHANGED <<holdersEmpty, holderAnalysis, liquidityTxFetch, tokenData, riskOut>>
    /\ UNCHANGED notRisk

\* lines 870, 479: analyzeLiquidity fetches the token data again.  When that
\* fails the catch block gives score 0 and the response is made.
RiskLiquidityData ==
    /\ riskPc = "liquidityData"
    /\ \E a \in MetaAnswers :
         IF a.kind = "ok"
         THEN /\ tokenData' = a
              /\ riskPc' = "liquidityTransactions"
              /\ riskOut' = riskOut
         ELSE /\ tokenData' = tokenData
              /\ riskPc' = "done"
              /\ riskOut' = RiskResponse(holdersEmpty, holderAnalysis, transactionAnalysis,
                                         LiquidityError(a.message))
    /\ UNCHANGED <<holdersEmpty, holderAnalysis, transactionAnalysis, txFetch,
                   liquidityTxFetch>>
    /\ UNCHANGED notRisk

\* lines 480-522, 873-921: analyzeLiquidity fetches the transactions again
\* and scores; the response is made.
RiskLiquidityTransactions ==
    /\ riskPc = "liquidityTransactions"
    /\ \E a \in TxAnswers :
         /\ riskOut' = RiskResponse(holdersEmpty, holderAnalysis, transactionAnalysis,
                                    AnalyzeLiquidity(tokenData, a.transactions))
         /\ liquidityTxFetch' = [failed |-> a.failed, empty |-> Len(a.transactions) = 0]
    /\ riskPc' = "done"
    /\ UNCHANGED <<holdersEmpty, holderAnalysis, transactionAnalysis, txFetch, tokenData>>
    /\ UNCHANGED notRisk

NextRisk ==
    \/ RiskVerify
    \/ RiskHolders
    \/ RiskTransactions
    \/ RiskLiquidityData
    \/ RiskLiquidityTransactions

----------------------------------------------------------------------------
(***************************************************************************)
(* The risk level as a function of the score                               *)
(***************************************************************************)
MaxScore == 100

BandIdle ==
    /\ bandScore = 0
    /\ bandLevel = ""
    /\ bandPc = "idle"

InitBandVars ==
    /\ bandScore \in 0..MaxScore
    /\ bandLevel = ""
    /\ bandPc = "start"

\* lines 904-911
Band ==
    /\ bandPc = "start"
    /\ bandLevel' = RiskLevel(bandScore)
    /\ bandPc' = "done"
    /\ UNCHANGED bandScore
    /\ UNCHANGED notBand

NextBand == Band

----------------------------------------------------------------------------
(***************************************************************************)
(* The ledger helpers.  getOnChainTokenData and                            *)
(* getTokenHoldersDistribution validate the address, issue their ledger    *)
(* call under withRetry (the withRetry modelled above, with the default    *)
(* parameters) and handle every failure in one catch block.  The existence *)
(* check of the risk analysis calls getOnChainTokenData as the operation   *)
(* of a second, enclosing withRetry.                                       *)
(***************************************************************************)
LedgerFns == {"getOnChainTokenData", "getTokenHoldersDistribution"}

\* lines 341, 374
InvalidAddressError == JsError("Invalid token address format", 1)

\* lines 350, 383: the ledger answered, with no value
NotFoundError(fn) ==
    IF fn = "getOnChainTokenData"
    THEN JsError("Token account not found", 2)
    ELSE JsError("No token accounts found", 2)

\* lines 358-363, 388-392: the value returned from the ledger's answer
LedgerData(fn) ==
    IF fn = "getOnChainTokenData" THEN Value("tokenData") ELSE Value("holders")

\* Mutant: the catch block of getTokenHoldersDistribution rethrows too.
HelperCatchRethrows(fn, error) == [pc |-> "thrown", out |-> error]

\* lines 364-367 and 393-396: the catch block of the helper.
\* getOnChainTokenData rethrows; getTokenHoldersDistribution returns [].
HelperCatch(fn, error) ==
    IF fn = "getOnChainTokenData"
    THEN [pc |-> "thrown", out |-> error]
    ELSE [pc |-> "returned", out |-> Value("[]")]

LedgerIdle ==
    /\ ledgerFn = "none"
    /\ addressValid = TRUE
    /\ outerRetry = FALSE
    /\ outerAttempt = 1
    /\ outerDelays = <<>>
    /\ validations = 0
    /\ rpcCalls = 0
    /\ rpcDelays = <<>>
    /\ ledgerPc = "idle"
    /\ ledgerOut = NULL

InitLedgerVars ==
    /\ ledgerFn \in LedgerFns
    /\ addressValid \in BOOLEAN
    /\ outerRetry \in BOOLEAN
    /\ outerRetry => ledgerFn = "getOnChainTokenData"
    /\ outerAttempt = 1
    /\ outerDelays = <<>>
    /\ validations = 0
    /\ rpcCalls = 0
    /\ rpcDelays = <<>>
    /\ ledgerPc = "enter"
    /\ ledgerOut = NULL

\* The helper ends with `result` ([pc, out]).  Under the enclosing
\* withRetry a throw is caught by lines 325-329: the last attempt rethrows
\* it, an earlier one sleeps and calls the helper again.
LedgerEnds(result) ==
    IF result.pc = "thrown" /\ outerRetry /\ outerAttempt # DefaultMaxRetries
    THEN /\ ledgerPc' = "outerSleep"
         /\ ledgerOut' = ledgerOut
    ELSE /\ ledgerPc' = result.pc
         /\ ledgerOut' = IF result.pc = "thrown" /\ outerRetry
                         THEN NormalizeError(result.out)
                         ELSE result.out

\* lines 339-345, 372-378: the helper is entered; the address is validated
\* and, if valid, withRetry is called on the ledger call.
LedgerEnter ==
    /\ ledgerPc = "enter"
    /\ validations' = validations + 1
    /\ IF addressValid
       THEN /\ maxRetries' = DefaultMaxRetries
            /\ delayMs' = DefaultDelayMs
            /\ plan' \in [1..DefaultMaxRetries -> Outcomes]
            /\ attempt' = 1
            /\ lastError' = NULL
            /\ calls' = 0
            /\ delays' = <<>>
            /\ retryPc' = "test"
            /\ retryOut' = NULL
            /\ ledgerPc' = "inner"
            /\ ledgerOut' = ledgerOut
       ELSE /\ LedgerEnds(HelperCatch(ledgerFn, InvalidAddressError))
            /\ UNCHANGED retryVars
    /\ UNCHANGED <<ledgerFn, addressValid, outerRetry, outerAttempt, outerDelays,
                   rpcCalls, rpcDelays>>
    /\ UNCHANGED notLedger

\* The steps of the withRetry around the ledger call.
LedgerRetryTest == ledgerPc = "inner" /\ RetryTest

LedgerRetryCall == ledgerPc = "inner" /\ RetryCall

LedgerRetrySleep == ledgerPc = "inner" /\ RetrySleep

\* lines 349-367, 382-396: withRetry has returned the ledger's answer or
\* thrown; the helper returns its value, or its catch block runs.
LedgerSettle ==
    /\ ledgerPc = "inner"
    /\ retryPc \in {"returned", "thrown"}
    /\ rpcCalls' = rpcCalls + calls
    /\ rpcDelays' = delays
    /\ IF retryPc = "thrown"
       THEN LedgerEnds(HelperCatch(ledgerFn, retryOut))
       ELSE \E hasValue \in BOOLEAN :
              IF hasValue
              THEN LedgerEnds([pc |-> "returned", out |-> LedgerData(ledgerFn)])
              ELSE LedgerEnds(HelperCatch(ledgerFn, NotFoundError(ledgerFn)))
    /\ UNCHANGED retryVars
    /\ UNCHANGED <<ledgerFn, addressValid, outerRetry, outerAttempt, outerDelays,
                   validations>>
    /\ UNCHANGED notLedger

\* lines 329-330 and the attempt++ of line 322, in the enclosing withRetry
LedgerOuterSleep ==
    /\ ledgerPc = "outerSleep"
    /\ outerDelays' = Append(outerDelays, BackoffDelay(DefaultDelayMs, outerAttempt))
    /\ outerAttempt' = outerAttempt + 1
    /\ ledgerPc' = "enter"
    /\ UNCHANGED <<ledgerFn, addressValid, outerRetry, validations, rpcCalls,
                   rpcDelays, ledgerOut>>
    /\ UNCHANGED retryVars
    /\ UNCHANGED notLedger

NextLedger ==
    \/ LedgerEnter
    \/ LedgerRetryTest
    \/ LedgerRetryCall
    \/ LedgerRetrySleep
    \/ LedgerSettle
    \/ LedgerOuterSleep

----------------------------------------------------------------------------
(***************************************************************************)
(* getRecentTransactions.  The callbacks of signatures.map run             *)
(* concurrently: each awaits its getTransaction, and they complete in any  *)
(* order.  Promise.all resolves, when all have, to their results in the    *)
(* order of the signatures, and rejects as soon as one of them rejects.    *)
(***************************************************************************)
MaxSigs == 3

SignatureIds == <<"sig1", "sig2", "sig3", "sig4", "sig5">>

SigBlockTimes == {0, 6}

\* What getSignaturesForAddress may resolve to: up to MaxSigs signatures.
SignatureLists ==
    UNION {{[i \in 1..n |-> [signature |-> SignatureIds[i], blockTime |-> t[i]]] :
               t \in [1..n -> SigBlockTimes]} : n \in 0..MaxSigs}

NoResult == [done |-> FALSE]

\* lines 226-234: the entry the callback of signature sig resolves to
RecentEntry(sig, tx) ==
    [done |-> TRUE, signature |-> sig.signature, entry |-> TxEntry(sig.blockTime, tx)]

\* Mutant: the results are gathered in the order the fetches completed.
PromiseAllInCompletionOrder(results, order) ==
    [k \in 1..Len(order) |-> results[order[k]]]

\* lines 203, 236-237: what Promise.all resolves to
PromiseAll(results, order) ==
    [i \in 1..Len(results) |-> results[i]]

RecentIdle ==
    /\ signatures = <<>>
    /\ txResults = <<>>
    /\ completed = <<>>
    /\ recentFailed = FALSE
    /\ recentPc = "idle"
    /\ recentOut = <<>>

InitRecentVars ==
    /\ signatures = <<>>
    /\ txResults = <<>>
    /\ completed = <<>>
    /\ recentFailed = FALSE
    /\ recentPc = "start"
    /\ recentOut = <<>>

\* lines 238-241: the catch block
RecentCatch ==
    /\ recentFailed' = TRUE
    /\ recentPc' = "returned"
    /\ recentOut' = <<>>

\* lines 195-201: the address is invalid or getSignaturesForAddress fails
RecentStartFails ==
    /\ recentPc = "start"
    /\ RecentCatch
    /\ UNCHANGED <<signatures, txResults, completed>>
    /\ UNCHANGED notRecent

\* lines 201-204: getSignaturesForAddress resolves and the callbacks start
RecentStart ==
    /\ recentPc = "start"
    /\ \E list \in SignatureLists :
         /\ signatures' = list
         /\ txResults' = [i \in 1..Len(list) |-> NoResult]
    /\ recentPc' = "fetching"
    /\ UNCHANGED <<completed, recentFailed, recentOut>>
    /\ UNCHANGED notRecent

\* lines 205-234: the getTransaction of signature i resolves, and its
\* callback resolves to the entry
RecentFetched(i) ==
    /\ recentPc = "fetching"
    /\ ~txResults[i].done
    /\ \E tx \in ParsedTxs :
         txResults' = [txResults EXCEPT ![i] = RecentEntry(signatures[i], tx)]
    /\ completed' = Append(completed, i)
    /\ UNCHANGED <<signatures, recentFailed, recentPc, recentOut>>
    /\ UNCHANGED notRecent

\* lines 205, 238-241: the getTransaction of signature i rejects, Promise.all
\* rejects and the catch block runs
RecentFetchRejected(i) ==
    /\ recentPc = "fetching"
    /\ ~txResults[i].done
    /\ RecentCatch
    /\ UNCHANGED <<signatures, txResults, completed>>
    /\ UNCHANGED notRecent

\* lines 203, 236-237: every callback has resolved
RecentReturn ==
    /\ recentPc = "fetching"
    /\ \A i \in 1..Len(txResults) : txResults[i].done
    /\ recentOut' = PromiseAll(txResults, completed)
    /\ recentPc' = "returned"
    /\ UNCHANGED <<signatures, txResults, completed, recentFailed>>
    /\ UNCHANGED notRecent

NextRecent ==
    \/ RecentStartFails
    \/ RecentStart
    \/ \E i \in 1..Len(signatures) : RecentFetched(i)
    \/ \E i \in 1..Len(signatures) : RecentFetchRejected(i)
    \/ RecentReturn

----------------------------------------------------------------------------
(***************************************************************************)
(* Failures leaving the actions.  A message is the sequence of the pieces  *)
(* of text it was put together from; a template literal concatenates.      *)
(***************************************************************************)
Actions ==
    {"get-token-price-with-sentiment", "get-address-activity",
     "potential-rugpull-and-fraud-token-analysis", "get-latest-crypto-news"}

HttpStatuses == {"400", "404", "429", "500", "503"}

NetworkMessages == {<<"fetch failed">>, <<"socket hang up">>, <<"429 Too Many Requests">>}

\* The failures that can reach each invoke function: the action, the place
\* where the failure is thrown, and its message.
Failures ==
    \* getTokenList: fetch rejects, or line 112
    {[action |-> "get-token-price-with-sentiment", site |-> "getTokenList", message |-> m] :
        m \in NetworkMessages \cup {<<"HTTP error! status: ", st>> : st \in HttpStatuses}}
    \* getTokenPriceData: line 143, fetch rejects, lines 156 and 162
    \cup {[action |-> "get-token-price-with-sentiment", site |-> "getTokenPriceData", message |-> m] :
        m \in NetworkMessages
              \cup {<<"HTTP error! status: ", st>> : st \in HttpStatuses}
              \cup {<<"Token \"", t, "\" not found. Try using the token's ID, symbol, or name.">> :
                        t \in SearchTerms}
              \cup {<<"Token price data not found">>}}
    \* line 787
    \cup {[action |-> "get-address-activity", site |-> "invoke",
           message |-> <<"Invalid Solana wallet address format">>]}
    \* the existence check: what withRetry(getOnChainTokenData) throws
    \cup {[action |-> "potential-rugpull-and-fraud-token-analysis", site |-> "existenceCheck",
           message |-> m] :
        m \in NetworkMessages
              \cup {<<"Invalid token address format">>, <<"Token account not found">>,
                    <<"Invalid token data format">>}}
    \* getAllNews: a failure while the fetched articles are processed
    \cup {[action |-> "get-latest-crypto-news", site |-> "getAllNews", message |-> m] :
        m \in {<<"Cannot read properties of undefined (reading 'toLowerCase')">>,
               <<"Invalid time value">>}}

\* line 119
TokenListMessage(message) == <<"Failed to fetch token list: ">> \o message

\* line 187
PriceDataMessage(message) == <<"Error fetching token data: ">> \o message

\* lines 859-863: the Error the existence check throws instead
ExistenceCheckMessage(message) ==
    <<"Unable to fetch token data. This could be due to: 1. Invalid token address 2. Network connectivity issues 3. Token no longer exists Please verify the token address and try again.">>

\* The text each invoke function puts before the message (lines 763, 825,
\* 923, 985)
ActionPrefix(action) ==
    CASE action = "get-token-price-with-sentiment" -> "Error analyzing token: "
      [] action = "get-address-activity" -> "Error checking address activity: "
      [] action = "potential-rugpull-and-fraud-token-analysis" -> "Error analyzing token risk: "
      [] OTHER -> "Error fetching crypto news: "

\* lines 763, 825, 923, 985: the message of the Error the invoke function
\* throws
InvokeMessage(action, message) ==
    IF action = "potential-rugpull-and-fraud-token-analysis"
    THEN <<ActionPrefix(action)>> \o message \o <<". Please try again in a few moments.">>
    ELSE <<ActionPrefix(action)>> \o message

FacadeIdle ==
    /\ facadeAction = "none"
    /\ facadeSite = "none"
    /\ cause = <<>>
    /\ facadeMessage = <<>>
    /\ facadePc = "idle"

InitFacadeVars ==
    /\ \E f \in Failures :
         /\ facadeAction = f.action
         /\ facadeSite = f.site
         /\ cause = f.message
    /\ facadeMessage = <<>>
    /\ facadePc = "start"

\* The underlying failure is thrown.
FacadeRaise ==
    /\ facadePc = "start"
    /\ facadeMessage' = cause
    /\ facadePc' = IF facadeSite = "getTokenPriceData" THEN "inPriceData"
                   ELSE IF facadeSite = "invoke" THEN "inInvoke"
                   ELSE "raised"
    /\ UNCHANGED <<facadeAction, facadeSite, cause>>
    /\ UNCHANGED notFacade

\* lines 118-120: the catch block of getTokenList
FacadeTokenListCatch ==
    /\ facadePc = "raised" /\ facadeSite = "getTokenList"
    /\ facadeMessage' = TokenListMessage(facadeMessage)
    /\ facadePc' = "inPriceData"
    /\ UNCHANGED <<facadeAction, facadeSite, cause>>
    /\ UNCHANGED notFacade

\* lines 185-190: the catch block of getTokenPriceData
FacadePriceDataCatch ==
    /\ facadePc = "inPriceData"
    /\ facadeMessage' = PriceDataMessage(facadeMessage)
    /\ facadePc' = "inInvoke"
    /\ UNCHANGED <<facadeAction, facadeSite, cause>>
    /\ UNCHANGED notFacade

\* lines 858-864: the catch block of the existence check
FacadeExistenceCheckCatch ==
    /\ facadePc = "raised" /\ facadeSite = "existenceCheck"
    /\ facadeMessage' = ExistenceCheckMessage(facadeMessage)
    /\ facadePc' = "inInvoke"
    /\ UNCHANGED <<facadeAction, facadeSite, cause>>
    /\ UNCHANGED notFacade

\* lines 699-702: the catch block of getAllNews rethrows
FacadeNewsCatch ==
    /\ facadePc = "raised" /\ facadeSite = "getAllNews"
    /\ facadePc' = "inInvoke"
    /\ UNCHANGED <<facadeAction, facadeSite, cause, facadeMessage>>
    /\ UNCHANGED notFacade

\* lines 762-764, 824-826, 922-924, 984-986: the catch block of the invoke
\* function
FacadeInvokeCatch ==
    /\ facadePc = "inInvoke"
    /\ facadeMessage' = InvokeMessage(facadeAction, facadeMessage)
    /\ facadePc' = "thrown"
    /\ UNCHANGED <<facadeAction, facadeSite, cause>>
    /\ UNCHANGED notFacade

NextFacade ==
    \/ FacadeRaise
    \/ FacadeTokenListCatch
    \/ FacadePriceDataCatch
    \/ FacadeExistenceCheckCatch
    \/ FacadeNewsCatch
    \/ FacadeInvokeCatch

----------------------------------------------------------------------------
(***************************************************************************)
(* The get-address-activity action: time filtering and counts              *)
(***************************************************************************)
\* lines 794-798: the look-back of each range, in seconds
LookBack(range) ==
    CASE range = "24h" -> 86400
      [] range = "7d" -> 604800
      [] OTHER -> 2592000

\* line 799: params.timeRange || "7d"
SelectedRange(range) == IF range = "undefined" THEN "7d" ELSE range

\* Mutant: the start of the window is excluded.
InRangeExclusive(tx, startTime) == tx.timestamp # 0 /\ tx.timestamp > startTime

\* line 803: tx.timestamp && tx.timestamp >= startTime (a null timestamp is
\* modelled as 0)
InRange(tx, startTime) == tx.timestamp # 0 /\ tx.timestamp >= startTime

\* Array.prototype.filter with the test of line 803
RECURSIVE FilterInRange(_, _)
FilterInRange(txs, startTime) ==
    IF txs = <<>> THEN <<>>
    ELSE (IF InRange(Head(txs), startTime) THEN <<Head(txs)>> ELSE <<>>)
         \o FilterInRange(Tail(txs), startTime)

CountType(txs, type) == Cardinality({i \in 1..Len(txs) : txs[i].type = type})

\* lines 806-821
ActivityAnalysis(filtered, range) ==
    [transactionCount |-> Len(filtered),
     transactionTypes |-> [defi |-> CountType(filtered, "DeFi"),
                           nft |-> CountType(filtered, "NFT"),
                           token |-> CountType(filtered, "Token Transfer")],
     recentActivity |-> SubSeq(filtered, 1, IF Len(filtered) < 5 THEN Len(filtered) ELSE 5),
     timeRange |-> range]

MaxActivityTxs == 2

TimeRanges == {"undefined", "24h", "7d", "30d"}

\* The times of the requests, in seconds.
ActivityNows == {3000000}

\* The block times of the transactions of a request made at time t: null
\* (0), and the times at and next to the start of each range.
ActivityBlockTimes(t) ==
    {0, t, t - 86399, t - 86400, t - 86401, t - 604800, t - 604801,
     t - 2592000, t - 2592001}

ActivityEntries(t) == {TxEntry(b, tx) : b \in ActivityBlockTimes(t), tx \in ParsedTxs}

NoActivity == [transactionCount |-> -1]

ActivityIdle ==
    /\ activityNow = 0
    /\ timeRange = "undefined"
    /\ activityTxs = <<>>
    /\ filteredTransactions = <<>>
    /\ activityOut = NoActivity
    /\ activityPc = "idle"

InitActivityVars ==
    /\ activityNow \in ActivityNows
    /\ timeRange \in TimeRanges
    /\ activityTxs \in SeqsUpTo(ActivityEntries(activityNow), MaxActivityTxs)
    /\ filteredTransactions = <<>>
    /\ activityOut = NoActivity
    /\ activityPc = "start"

\* lines 793-823
AddressActivity ==
    /\ activityPc = "start"
    /\ LET range == SelectedRange(timeRange)
           startTime == activityNow - LookBack(range)
       IN /\ filteredTransactions' = FilterInRange(activityTxs, startTime)
          /\ activityOut' = ActivityAnalysis(filteredTransactions', range)
    /\ activityPc' = "done"
    /\ UNCHANGED <<activityNow, timeRange, activityTxs>>
    /\ UNCHANGED notActivity

NextActivity == AddressActivity

----------------------------------------------------------------------------
(***************************************************************************)
(* Requests racing on a cache                                              *)
(***************************************************************************)
\* The term the racing findToken calls search for: the two lists the
\* endpoint may answer give it different results.
RacingTerm == "xyz"

\* The two caches share nothing but the clock: requests race on one of
\* them while the other is at rest.
NextCaches ==
    \/ TokenIdle /\ NextNews
    \/ /\ NewsIdle
       /\ NextToken
       /\ \A r \in TokenCalls : tokenCalls'[r].searchTerm \in {"", RacingTerm}

----------------------------------------------------------------------------
(***************************************************************************)
(* The chat page and its daily message count (src/app/chat/page.tsx)        *)
(***************************************************************************)
MESSAGE_LIMIT == 400

\* new Date().toDateString() during the day the page is used, and the day
\* before.
Today == "Fri Nov 06 2026"

Yesterday == "Thu Nov 05 2026"

\* localStorage.getItem('chatMessageCount') when nothing is stored
NoStored == [isNull |-> TRUE]

StoredCount(date, count) == [isNull |-> FALSE, date |-> date, count |-> count]

\* lines 28-38
getDailyMessageCount(stored, today) ==
    IF ~stored.isNull /\ stored.date = today THEN stored.count ELSE 0

\* lines 40-47
incrementDailyMessageCount(stored, today) ==
    StoredCount(today, getDailyMessageCount(stored, today) + 1)

\* input.trim()
Trim(input) == IF input = "  " THEN "" ELSE input

Inputs == {"", "  ", "hello"}

\* What localStorage holds when the day begins: nothing, or the count of
\* an earlier day.
StoredAtDayStart ==
    {NoStored, StoredCount(Yesterday, 1), StoredCount(Yesterday, MESSAGE_LIMIT)}

ChatIdle ==
    /\ chatStored = NoStored
    /\ messageCount = 0
    /\ isThinking = FALSE
    /\ alerted = FALSE
    /\ sentToday = 0
    /\ chatPc = "closed"

InitChatVars ==
    /\ chatStored \in StoredAtDayStart
    /\ messageCount = 0
    /\ isThinking = FALSE
    /\ alerted = FALSE
    /\ sentToday = 0
    /\ chatPc = "closed"

\* lines 56 and 193-196: the page is loaded or reloaded; the state starts
\* at 0 and the mount effect sets it to the stored count of today.
ChatMount ==
    /\ messageCount' = getDailyMessageCount(chatStored, Today)
    /\ isThinking' = FALSE
    /\ alerted' = FALSE
    /\ chatPc' = "mounted"
    /\ UNCHANGED <<chatStored, sentToday>>
    /\ UNCHANGED notChat

\* lines 167-190, up to the await of sendMessage
handleSubmit ==
    /\ chatPc = "mounted"
    /\ \E input \in Inputs :
         IF Trim(input) = "" \/ isThinking
         THEN UNCHANGED chatVars
         ELSE IF messageCount >= MESSAGE_LIMIT
         THEN /\ alerted' = TRUE
              /\ UNCHANGED <<chatStored, messageCount, isThinking, sentToday, chatPc>>
         ELSE /\ chatStored' = incrementDailyMessageCount(chatStored, Today)
              /\ messageCount' = messageCount + 1
              /\ sentToday' = sentToday + 1
              /\ isThinking' = TRUE
              /\ UNCHANGED <<alerted, chatPc>>
    /\ UNCHANGED notChat

\* line 186: sendMessage has settled (an answer, or an error that line 188
\* logs).
ChatSendSettles ==
    /\ chatPc = "mounted"
    /\ isThinking
    /\ isThinking' = FALSE
    /\ UNCHANGED <<chatStored, messageCount, alerted, sentToday, chatPc>>
    /\ UNCHANGED notChat

NextChat ==
    \/ ChatMount
    \/ handleSubmit
    \/ ChatSendSettles

----------------------------------------------------------------------------
(***************************************************************************)
(* analyzeHolderConcentration on the holders of one ledger answer          *)
(***************************************************************************)
HolderIdle ==
    /\ holdersArg = <<>>
    /\ holderOut = NoAnalysis
    /\ holderPc = "idle"

\* line 867: the holders are what getTokenHoldersDistribution returned
InitHolderVars ==
    /\ holdersArg \in {HoldersOf(a.amounts) : a \in HolderAnswers}
    /\ holderOut = NoAnalysis
    /\ holderPc = "start"

\* line 868
HolderConcentration ==
    /\ holderPc = "start"
    /\ holderOut' = AnalyzeHolderConcentration(holdersArg)
    /\ holderPc' = "done"
    /\ UNCHANGED holdersArg
    /\ UNCHANGED notHolder

NextHolder == HolderConcentration

----------------------------------------------------------------------------
(***************************************************************************)
(* analyzeTransactionPatterns and analyzeLiquidity on one ledger answer    *)
(***************************************************************************)
AnalysisIdle ==
    /\ txList = <<>>
    /\ mintInfo = NoTokenData
    /\ analysisOut = NoAnalysis
    /\ analysisPc = "idle"

\* line 434: the transactions are what getRecentTransactions resolved to
\* (it never rejects: a failure becomes [], line 240)
InitPatternVars ==
    /\ txList \in {a.transactions : a \in TxAnswers}
    /\ mintInfo = NoTokenData
    /\ analysisOut = NoAnalysis
    /\ analysisPc = "pattern"

\* lines 479-480
InitLiquidityVars ==
    /\ txList \in {a.transactions : a \in TxAnswers}
    /\ mintInfo \in MetaAnswers
    /\ analysisOut = NoAnalysis
    /\ analysisPc = "liquidity"

\* lines 432-471
PatternAnalysis ==
    /\ analysisPc = "pattern"
    /\ analysisOut' = AnalyzeTransactionPatterns(txList)
    /\ analysisPc' = "done"
    /\ UNCHANGED <<txList, mintInfo>>
    /\ UNCHANGED notAnalysis

\* lines 474-530: getOnChainTokenData throws when the query fails or finds
\* no token account, and the catch block makes the analysis
LiquidityAnalysis ==
    /\ analysisPc = "liquidity"
    /\ analysisOut' = IF mintInfo.kind = "ok"
                      THEN AnalyzeLiquidity(mintInfo, txList)
                      ELSE LiquidityError(mintInfo.message)
    /\ analysisPc' = "done"
    /\ UNCHANGED <<txList, mintInfo>>
    /\ UNCHANGED notAnalysis

NextPattern == PatternAnalysis

NextLiquidity == LiquidityAnalysis

----------------------------------------------------------------------------
(***************************************************************************)
(* analyzeTrendingTopics, article by article                               *)
(***************************************************************************)
MaxTopicWords == 6

\* The titles of the articles: words counted (two of them the same but for
\* their case, two made of digits), a stop word and a word of 3 letters.
TopicTitles == {"Solana", "SOLANA", "Ether", "bitcoin", "token", "2024", "1000",
                "with", "nft"}

TrendingIdle ==
    /\ wordFrequency = EmptyFrequency
    /\ topics = <<>>
    /\ trendingPc = "idle"

InitTrendingVars ==
    /\ wordFrequency = EmptyFrequency
    /\ topics = <<>>
    /\ trendingPc = "counting"

\* lines 643-652: one turn of articles.forEach
TrendingCountArticle ==
    /\ trendingPc = "counting"
    /\ SumSeq(wordFrequency.counts) < MaxTopicWords
    /\ \E t \in TopicTitles :
         wordFrequency' = CountWords(wordFrequency, ArticleWords(Article(t, "u1", 1, "NewsAPI")))
    /\ UNCHANGED <<topics, trendingPc>>
    /\ UNCHANGED notTrending

\* lines 654-657
TrendingRank ==
    /\ trendingPc = "counting"
    /\ topics' = TrendingTopics(wordFrequency)
    /\ trendingPc' = "done"
    /\ UNCHANGED wordFrequency
    /\ UNCHANGED notTrending

NextTrending == TrendingCountArticle \/ TrendingRank

----------------------------------------------------------------------------
(***************************************************************************)
(* The type of a transaction from its log messages                         *)
(***************************************************************************)
MaxLogs == 2

\* The words the types are recognised by (lines 217-221).
Keywords == {"swap", "liquidity", "nft", "mint", "token", "transfer"}

\* text.includes(k), for the lower-cased log messages of the model
Includes(text, k) ==
    CASE text = "instruction: swap" -> k = "swap"
      [] text = "add liquidity" -> k = "liquidity"
      [] text = "mintnft" -> k \in {"mint", "nft"}
      [] text = "instruction: transfer" -> k = "transfer"
      [] text = "tokenswap" -> k \in {"token", "swap"}
      [] text = "token" -> k = "token"
      [] OTHER -> FALSE

\* lines 216-221: the keywords that logMessages.join(" ").toLowerCase()
\* includes.  No keyword has a space in it, so the joined text includes a
\* keyword exactly when one of the messages does.
LogKeywords(messages) ==
    {k \in Keywords : \E i \in 1..Len(messages) : Includes(ToLowerCase(messages[i]), k)}

\* tx is null, or has no meta, or meta has no logMessages
NoLogs == <<"no logMessages">>

LogLines == {"Instruction: Swap", "ADD LIQUIDITY", "MintNft", "Instruction: Transfer",
             "TokenSwap", "token", "invoke [1]"}

ClassifyIdle ==
    /\ logMessages = <<>>
    /\ txType = ""
    /\ classifyPc = "idle"

InitClassifyVars ==
    /\ logMessages \in {NoLogs} \cup SeqsUpTo(LogLines, MaxLogs)
    /\ txType = ""
    /\ classifyPc = "start"

\* lines 214-224
Classify ==
    /\ classifyPc = "start"
    /\ txType' = IF logMessages = NoLogs THEN "Unknown"
                 ELSE TxType(LogKeywords(logMessages))
    /\ classifyPc' = "done"
    /\ UNCHANGED logMessages
    /\ UNCHANGED notClassify

NextClassify == Classify

----------------------------------------------------------------------------
(***************************************************************************)
(* The chat histories of the chat page (src/app/chat/page.tsx)             *)
(*                                                                         *)
(* A chat is [id, messages]: its id and the number of its messages.  The   *)
(* two saving effects write to localStorage from a setTimeout of 0 ms, so  *)
(* each write is a step of its own, and a reload drops the pending ones.   *)
(***************************************************************************)
MaxChats == 2
MaxMessages == 2

\* currentChatId is undefined; localStorage.getItem('currentChatId') is null
Undefined == 0

\* localStorage.getItem('chatHistories') is null
NoStoredChats == [present |-> FALSE, list |-> <<>>]

NoSaveChats == [pending |-> FALSE, list |-> <<>>]

NoSaveCurrent == [pending |-> FALSE, id |-> Undefined]

ChatIdsOf(list) == {list[i].id : i \in 1..Len(list)}

\* line 283: prev.filter(chat => chat.id !== chatId)
WithoutChat(list, chatId) == SelectSeq(list, LAMBDA chat : chat.id # chatId)

\* lines 143-151: the latest message is appended to the chat chatId
WithMessage(list, chatId) ==
    [i \in 1..Len(list) |->
        IF list[i].id = chatId THEN [list[i] EXCEPT !.messages = @ + 1] ELSE list[i]]

\* lines 199-206, run after chatHistories has become list: the pending
\* timer is cleared, and a new one is set only for a list that is not empty
SaveChatsEffect(list) ==
    IF Len(list) > 0 THEN [pending |-> TRUE, list |-> list] ELSE NoSaveChats

\* lines 209-218, run when currentChatId has changed from old to new: the
\* pending timer is cleared and a new one is set
SaveCurrentEffect(old, new, timer) ==
    IF new = old THEN timer ELSE [pending |-> TRUE, id |-> new]

\* A pending save would change what localStorage holds.
Unsaved ==
    \/ /\ saveChatsTimer.pending
       /\ storedChatHistories # [present |-> TRUE, list |-> saveChatsTimer.list]
    \/ /\ saveCurrentTimer.pending
       /\ storedCurrentChatId # saveCurrentTimer.id

HistoryIdle ==
    /\ chatHistories = <<>>
    /\ currentChatId = Undefined
    /\ storedChatHistories = NoStoredChats
    /\ storedCurrentChatId = Undefined
    /\ saveChatsTimer = NoSaveChats
    /\ saveCurrentTimer = NoSaveCurrent
    /\ dateNow = 1
    /\ deletedChats = {}
    /\ reloaded = FALSE
    /\ unsavedLost = FALSE

\* lines 58-59: the page is open for the first time, nothing is stored
InitHistoryVars == HistoryIdle

\* lines 104-152: a message arrives; with no current chat a new chat is
\* made of it, put first and made current, otherwise it is appended to the
\* current chat
HistoryMessage ==
    /\ IF currentChatId = Undefined
       THEN /\ dateNow <= MaxChats
            /\ chatHistories' = <<[id |-> dateNow, messages |-> 1]>> \o chatHistories
            /\ currentChatId' = dateNow
            /\ dateNow' = dateNow + 1
       ELSE /\ \E i \in 1..Len(chatHistories) :
                  /\ chatHistories[i].id = currentChatId
                  /\ chatHistories[i].messages < MaxMessages
            /\ chatHistories' = WithMessage(chatHistories, currentChatId)
            /\ UNCHANGED <<currentChatId, dateNow>>
    /\ saveChatsTimer' = SaveChatsEffect(chatHistories')
    /\ saveCurrentTimer' = SaveCurrentEffect(currentChatId, currentChatId', saveCurrentTimer)
    /\ reloaded' = FALSE
    /\ UNCHANGED <<storedChatHistories, storedCurrentChatId, deletedChats, unsavedLost>>
    /\ UNCHANGED notHistory

\* lines 155-163
handleSelectChat(chatId) ==
    /\ chatId \in ChatIdsOf(chatHistories)
    /\ chatId # currentChatId
    /\ currentChatId' = chatId
    /\ saveCurrentTimer' = SaveCurrentEffect(currentChatId, chatId, saveCurrentTimer)
    /\ reloaded' = FALSE
    /\ UNCHANGED <<chatHistories, storedChatHistories, storedCurrentChatId,
                   saveChatsTimer, dateNow, deletedChats, unsavedLost>>
    /\ UNCHANGED notHistory

\* lines 77-81
createNewChat ==
    /\ currentChatId # Undefined
    /\ currentChatId' = Undefined
    /\ saveCurrentTimer' = SaveCurrentEffect(currentChatId, Undefined, saveCurrentTimer)
    /\ reloaded' = FALSE
    /\ UNCHANGED <<chatHistories, storedChatHistories, storedCurrentChatId,
                   saveChatsTimer, dateNow, deletedChats, unsavedLost>>
    /\ UNCHANGED notHistory

\* lines 280-290, the user confirming; followed by the effects of 199-218
handleDeleteChat(chatId) ==
    /\ chatId \in ChatIdsOf(chatHistories)
    /\ chatHistories' = WithoutChat(chatHistories, chatId)
    /\ currentChatId' = IF currentChatId = chatId THEN Undefined ELSE currentChatId
    /\ saveChatsTimer' = SaveChatsEffect(chatHistories')
    /\ saveCurrentTimer' = SaveCurrentEffect(currentChatId, currentChatId', saveCurrentTimer)
    /\ deletedChats' = deletedChats \cup {chatId}
    /\ reloaded' = FALSE
    /\ UNCHANGED <<storedChatHistories, storedCurrentChatId, dateNow, unsavedLost>>
    /\ UNCHANGED notHistory

\* lines 201-203: the timer of the chat-histories effect runs
HistorySaveChats ==
    /\ saveChatsTimer.pending
    /\ storedChatHistories' = [present |-> TRUE, list |-> saveChatsTimer.list]
    /\ saveChatsTimer' = NoSaveChats
    /\ reloaded' = FALSE
    /\ UNCHANGED <<chatHistories, currentChatId, storedCurrentChatId, saveCurrentTimer,
                   dateNow, deletedChats, unsavedLost>>
    /\ UNCHANGED notHistory

\* lines 210-216: the timer of the current-chat effect runs
HistorySaveCurrent ==
    /\ saveCurrentTimer.pending
    /\ storedCurrentChatId' = saveCurrentTimer.id
    /\ saveCurrentTimer' = NoSaveCurrent
    /\ reloaded' = FALSE
    /\ UNCHANGED <<chatHistories, currentChatId, storedChatHistories, saveChatsTimer,
                   dateNow, deletedChats, unsavedLost>>
    /\ UNCHANGED notHistory

\* The page is reloaded: the pending timers are dropped, the state starts
\* again from [] and undefined (lines 58-59), the effect of lines 84-101
\* loads what is stored, and the saving effects run on the loaded state.
HistoryReload ==
    /\ chatHistories' = storedChatHistories.list
    /\ currentChatId' =
           IF /\ storedChatHistories.present
              /\ storedCurrentChatId # Undefined
              /\ storedCurrentChatId \in ChatIdsOf(storedChatHistories.list)
           THEN storedCurrentChatId
           ELSE Undefined
    /\ saveChatsTimer' = SaveChatsEffect(chatHistories')
    /\ saveCurrentTimer' = [pending |-> TRUE, id |-> currentChatId']
    /\ reloaded' = TRUE
    /\ unsavedLost' = (unsavedLost \/ Unsaved)
    /\ UNCHANGED <<storedChatHistories, storedCurrentChatId, dateNow, deletedChats>>
    /\ UNCHANGED notHistory

NextHistory ==
    \/ HistoryMessage
    \/ \E chatId \in 1..MaxChats : handleSelectChat(chatId)
    \/ createNewChat
    \/ \E chatId \in 1..MaxChats : handleDeleteChat(chatId)
    \/ HistorySaveChats
    \/ HistorySaveCurrent
    \/ HistoryReload

----------------------------------------------------------------------------
(***************************************************************************)
(* Specifications                                                          *)
(***************************************************************************)
InitRetry ==
    /\ InitRetryVars /\ ClockInit /\ NewsIdle /\ DedupIdle /\ TokenIdle /\ FindIdle
    /\ RiskIdle /\ BandIdle /\ LedgerIdle /\ RecentIdle /\ FacadeIdle /\ ActivityIdle /\ ChatIdle /\ HolderIdle /\ AnalysisIdle /\ TrendingIdle /\ ClassifyIdle /\ HistoryIdle

SpecRetry == InitRetry /\ [][NextRetry]_vars

InitNews ==
    /\ RetryIdle /\ ClockInit /\ InitNewsVars /\ DedupIdle /\ TokenIdle /\ FindIdle
    /\ RiskIdle /\ BandIdle /\ LedgerIdle /\ RecentIdle /\ FacadeIdle /\ ActivityIdle /\ ChatIdle /\ HolderIdle /\ AnalysisIdle /\ TrendingIdle /\ ClassifyIdle /\ HistoryIdle

SpecNews == InitNews /\ [][NextNews]_vars

InitDedup ==
    /\ RetryIdle /\ ClockInit /\ NewsIdle /\ InitDedupVars /\ TokenIdle /\ FindIdle
    /\ RiskIdle /\ BandIdle /\ LedgerIdle /\ RecentIdle /\ FacadeIdle /\ ActivityIdle /\ ChatIdle /\ HolderIdle /\ AnalysisIdle /\ TrendingIdle /\ ClassifyIdle /\ HistoryIdle

SpecDedup == InitDedup /\ [][NextDedup]_vars

InitToken ==
    /\ RetryIdle /\ ClockInit /\ NewsIdle /\ DedupIdle /\ InitTokenVars /\ FindIdle
    /\ RiskIdle /\ BandIdle /\ LedgerIdle /\ RecentIdle /\ FacadeIdle /\ ActivityIdle /\ ChatIdle /\ HolderIdle /\ AnalysisIdle /\ TrendingIdle /\ ClassifyIdle /\ HistoryIdle

SpecToken == InitToken /\ [][NextToken]_vars

InitFind ==
    /\ RetryIdle /\ ClockInit /\ NewsIdle /\ DedupIdle /\ TokenIdle /\ InitFindVars
    /\ RiskIdle /\ BandIdle /\ LedgerIdle /\ RecentIdle /\ FacadeIdle /\ ActivityIdle /\ ChatIdle /\ HolderIdle /\ AnalysisIdle /\ TrendingIdle /\ ClassifyIdle /\ HistoryIdle

SpecFind == InitFind /\ [][NextFind]_vars

InitRisk ==
    /\ RetryIdle /\ ClockInit /\ NewsIdle /\ DedupIdle /\ TokenIdle /\ FindIdle
    /\ InitRiskVars /\ BandIdle /\ LedgerIdle /\ RecentIdle /\ FacadeIdle /\ ActivityIdle /\ ChatIdle /\ HolderIdle /\ AnalysisIdle /\ TrendingIdle /\ ClassifyIdle /\ HistoryIdle

SpecRisk == InitRisk /\ [][NextRisk]_vars

InitBand ==
    /\ RetryIdle /\ ClockInit /\ NewsIdle /\ DedupIdle /\ TokenIdle /\ FindIdle
    /\ RiskIdle /\ InitBandVars /\ LedgerIdle /\ RecentIdle /\ FacadeIdle /\ ActivityIdle /\ ChatIdle /\ HolderIdle /\ AnalysisIdle /\ TrendingIdle /\ ClassifyIdle /\ HistoryIdle

SpecBand == InitBand /\ [][NextBand]_vars

InitLedger ==
    /\ RetryIdle /\ ClockInit /\ NewsIdle /\ DedupIdle /\ TokenIdle /\ FindIdle
    /\ RiskIdle /\ BandIdle /\ InitLedgerVars /\ RecentIdle /\ FacadeIdle /\ ActivityIdle /\ ChatIdle /\ HolderIdle /\ AnalysisIdle /\ TrendingIdle /\ ClassifyIdle /\ HistoryIdle

SpecLedger == InitLedger /\ [][NextLedger]_vars

InitRecent ==
    /\ RetryIdle /\ ClockInit /\ NewsIdle /\ DedupIdle /\ TokenIdle /\ FindIdle
    /\ RiskIdle /\ BandIdle /\ LedgerIdle /\ InitRecentVars /\ FacadeIdle /\ ActivityIdle /\ ChatIdle /\ HolderIdle /\ AnalysisIdle /\ TrendingIdle /\ ClassifyIdle /\ HistoryIdle

SpecRecent == InitRecent /\ [][NextRecent]_vars

InitFacade ==
    /\ RetryIdle /\ ClockInit /\ NewsIdle /\ DedupIdle /\ TokenIdle /\ FindIdle
    /\ RiskIdle /\ BandIdle /\ LedgerIdle /\ RecentIdle /\ InitFacadeVars /\ ActivityIdle /\ ChatIdle /\ HolderIdle /\ AnalysisIdle /\ TrendingIdle /\ ClassifyIdle /\ HistoryIdle

SpecFacade == InitFacade /\ [][NextFacade]_vars

InitActivity ==
    /\ RetryIdle /\ ClockInit /\ NewsIdle /\ DedupIdle /\ TokenIdle /\ FindIdle
    /\ RiskIdle /\ BandIdle /\ LedgerIdle /\ RecentIdle /\ FacadeIdle
    /\ InitActivityVars /\ ChatIdle /\ HolderIdle /\ AnalysisIdle /\ TrendingIdle /\ ClassifyIdle /\ HistoryIdle

SpecActivity == InitActivity /\ [][NextActivity]_vars

InitCaches ==
    /\ RetryIdle /\ ClockInit /\ InitNewsVars /\ DedupIdle /\ InitTokenVars /\ FindIdle
    /\ RiskIdle /\ BandIdle /\ LedgerIdle /\ RecentIdle /\ FacadeIdle /\ ActivityIdle /\ ChatIdle /\ HolderIdle /\ AnalysisIdle /\ TrendingIdle /\ ClassifyIdle /\ HistoryIdle

SpecCaches == InitCaches /\ [][NextCaches]_vars

InitChat ==
    /\ RetryIdle /\ ClockInit /\ NewsIdle /\ DedupIdle /\ TokenIdle /\ FindIdle
    /\ RiskIdle /\ BandIdle /\ LedgerIdle /\ RecentIdle /\ FacadeIdle /\ ActivityIdle
    /\ InitChatVars /\ HolderIdle /\ AnalysisIdle /\ TrendingIdle /\ ClassifyIdle /\ HistoryIdle

SpecChat == InitChat /\ [][NextChat]_vars

InitHolder ==
    /\ RetryIdle /\ ClockInit /\ NewsIdle /\ DedupIdle /\ TokenIdle /\ FindIdle
    /\ RiskIdle /\ BandIdle /\ LedgerIdle /\ RecentIdle /\ FacadeIdle /\ ActivityIdle
    /\ ChatIdle /\ InitHolderVars /\ AnalysisIdle /\ TrendingIdle /\ ClassifyIdle /\ HistoryIdle

SpecHolder == InitHolder /\ [][NextHolder]_vars

InitPattern ==
    /\ RetryIdle /\ ClockInit /\ NewsIdle /\ DedupIdle /\ TokenIdle /\ FindIdle
    /\ RiskIdle /\ BandIdle /\ LedgerIdle /\ RecentIdle /\ FacadeIdle /\ ActivityIdle
    /\ ChatIdle /\ HolderIdle /\ InitPatternVars /\ TrendingIdle /\ ClassifyIdle /\ HistoryIdle

SpecPattern == InitPattern /\ [][NextPattern]_vars

InitLiquidity ==
    /\ RetryIdle /\ ClockInit /\ NewsIdle /\ DedupIdle /\ TokenIdle /\ FindIdle
    /\ RiskIdle /\ BandIdle /\ LedgerIdle /\ RecentIdle /\ FacadeIdle /\ ActivityIdle
    /\ ChatIdle /\ HolderIdle /\ InitLiquidityVars /\ TrendingIdle /\ ClassifyIdle /\ HistoryIdle

SpecLiquidity == InitLiquidity /\ [][NextLiquidity]_vars

InitTrending ==
    /\ RetryIdle /\ ClockInit /\ NewsIdle /\ DedupIdle /\ TokenIdle /\ FindIdle
    /\ RiskIdle /\ BandIdle /\ LedgerIdle /\ RecentIdle /\ FacadeIdle /\ ActivityIdle
    /\ ChatIdle /\ HolderIdle /\ AnalysisIdle /\ InitTrendingVars /\ ClassifyIdle /\ HistoryIdle

SpecTrending == InitTrending /\ [][NextTrending]_vars

InitClassify ==
    /\ RetryIdle /\ ClockInit /\ NewsIdle /\ DedupIdle /\ TokenIdle /\ FindIdle
    /\ RiskIdle /\ BandIdle /\ LedgerIdle /\ RecentIdle /\ FacadeIdle /\ ActivityIdle
    /\ ChatIdle /\ HolderIdle /\ AnalysisIdle /\ TrendingIdle /\ InitClassifyVars /\ HistoryIdle

SpecClassify == InitClassify /\ [][NextClassify]_vars

InitHistory ==
    /\ RetryIdle /\ ClockInit /\ NewsIdle /\ DedupIdle /\ TokenIdle /\ FindIdle
    /\ RiskIdle /\ BandIdle /\ LedgerIdle /\ RecentIdle /\ FacadeIdle /\ ActivityIdle
    /\ ChatIdle /\ HolderIdle /\ AnalysisIdle /\ TrendingIdle /\ ClassifyIdle
    /\ InitHistoryVars

SpecHistory == InitHistory /\ [][NextHistory]_vars

----------------------------------------------------------------------------
(***************************************************************************)
(* Claims about the news cache                                             *)
(***************************************************************************)
\* Call r enters getAllNews in this step.
NewsEnters(r) == news[r].pc = "idle" /\ news'[r].pc # "idle"

\* Call r leaves the await of its provider fetches in this step.
NewsSettles(r) == news[r].pc = "fetching" /\ news'[r].pc # "fetching"

\* C3: a getAllNews call made while the cached result is younger than
\* NEWS_CACHE_DURATION returns the cached result unchanged, calls no
\* provider and leaves the cache as it is; a call made when there is no
\* cached result, or when its age has reached NEWS_CACHE_DURATION, calls
\* the providers.
C3_NewsCacheTtl ==
    [][\A r \in NewsCalls :
          NewsEnters(r) =>
              IF ~newsCache.isNull /\ now - newsCache.timestamp < NEWS_CACHE_DURATION
              THEN /\ news'[r].pc = "done"
                   /\ news'[r].out = newsCache.data
                   /\ ~news'[r].fetched
                   /\ newsCache' = newsCache
              ELSE /\ news'[r].pc = "fetching"
                   /\ news'[r].fetched]_vars

\* A call made 1 ms before the cached result's age reached the TTL was
\* served the cached result without calling the providers.
C3_Witness ==
    \E r \in NewsCalls :
        /\ ~newsCache.isNull
        /\ news[r].pc = "done" /\ ~news[r].fetched
        /\ news[r].out = newsCache.data
        /\ news[r].out.totalResults = 2
        /\ news[r].now - newsCache.timestamp = NEWS_CACHE_DURATION - 1

\* C4 as stated, for the news cache: a refetch in which the providers fail
\* leaves an existing cache entry unchanged.
C4_FailedRefetchKeepsNewsCache ==
    [][\A r \in NewsCalls :
          (/\ NewsSettles(r)
           /\ news'[r].cryptoFailed /\ news'[r].web3Failed
           /\ ~newsCache.isNull)
          => newsCache' = newsCache]_vars

\* C5 as stated, second half: when both providers fail and no cached result
\* exists, getAllNews does not return a result.
C5_BothFailNoCachePropagates ==
    [][\A r \in NewsCalls :
          (/\ NewsSettles(r)
           /\ news'[r].cryptoFailed /\ news'[r].web3Failed
           /\ newsCache.isNull)
          => news'[r].pc # "done"]_vars

\* C5, first half (holds): with exactly one provider failing the call
\* returns a result made of the other provider's articles.
C5_OneProviderFailureTolerated ==
    \A r \in NewsCalls :
        (news[r].pc = "done" /\ news[r].fetched
         /\ news[r].cryptoFailed # news[r].web3Failed)
        => /\ news[r].out.totalResults >= 1
           /\ \A i \in 1..Len(news[r].out.articles) :
                 news[r].out.articles[i].source =
                     (IF news[r].cryptoFailed THEN "NewsAPI" ELSE "CryptoCompare")

----------------------------------------------------------------------------
(***************************************************************************)
(* Claims about deduplication                                              *)
(***************************************************************************)
\* Two articles are duplicates: the same URL, or the same title compared
\* case-insensitively.
Duplicates(x, y) == x.url = y.url \/ ToLowerCase(x.title) = ToLowerCase(y.title)

NoDuplicatesIn(s) ==
    \A i, j \in 1..Len(s) : i # j => ~Duplicates(s[i], s[j])

\* The first position of article x in sequence s.
FirstPosition(s, x) ==
    CHOOSE i \in 1..Len(s) : s[i] = x /\ \A j \in 1..(i - 1) : s[j] # x

SortedBefore(m, i, j) ==
    \/ m[i].publishedAt > m[j].publishedAt
    \/ (m[i].publishedAt = m[j].publishedAt /\ i < j)

\* The positions of the merged list no earlier (sorted) article duplicates.
KeptPositions(m) ==
    {i \in 1..Len(m) :
        ~\E j \in 1..Len(m) : SortedBefore(m, j, i) /\ Duplicates(m[j], m[i])}

----------------------------------------------------------------------------
(***************************************************************************)
(* Claims about the token list cache and findToken                         *)
(***************************************************************************)
\* C4, for the token list cache (holds): a fetch of the token list that
\* fails leaves tokenListCache and lastCacheUpdate as they were.
C4_FailedRefetchKeepsTokenCache ==
    [][\A r \in TokenCalls :
          (/\ tokenCalls[r].pc = "fetching"
           /\ tokenCalls'[r].pc = "done"
           /\ tokenCalls'[r].failed)
          => /\ tokenListCache' = tokenListCache
             /\ lastCacheUpdate' = lastCacheUpdate]_vars

\* The first entry of s for which Field(entry), lower-cased, equals the
\* lower-cased term; 0 if there is none.
FirstMatching(s, Field(_), term) ==
    LET hits == {i \in 1..Len(s) : ToLowerCase(Field(s[i])) = ToLowerCase(term)}
    IN IF hits = {} THEN 0 ELSE CHOOSE i \in hits : \A j \in hits : i <= j

IdOf(token) == token.id

SymbolOf(token) == token.symbol

NameOf(token) == token.name

\* C7 as stated: findToken returns the first entry whose id equals the
\* term, else the first whose symbol equals it, else the first whose name
\* equals it, else nothing, each comparison being case-insensitive.
C7_CaseInsensitivePriority ==
    findPc = "done" =>
        LET byId == FirstMatching(tokens, IdOf, searchTerm)
            bySymbol == FirstMatching(tokens, SymbolOf, searchTerm)
            byName == FirstMatching(tokens, NameOf, searchTerm)
        IN found = (IF byId # 0 THEN tokens[byId]
                    ELSE IF bySymbol # 0 THEN tokens[bySymbol]
                    ELSE IF byName # 0 THEN tokens[byName]
                    ELSE NoToken)

\* C7, what the code does (holds): the id is compared as stored with the
\* lower-cased term; symbol and name are compared case-insensitively.
C7_IdComparedAsStored ==
    findPc = "done" =>
        LET idHits == {i \in 1..Len(tokens) : tokens[i].id = ToLowerCase(searchTerm)}
            bySymbol == FirstMatching(tokens, SymbolOf, searchTerm)
            byName == FirstMatching(tokens, NameOf, searchTerm)
        IN found = (IF idHits # {} THEN tokens[CHOOSE i \in idHits : \A j \in idHits : i <= j]
                    ELSE IF bySymbol # 0 THEN tokens[bySymbol]
                    ELSE IF byName # 0 THEN tokens[byName]
                    ELSE NoToken)


----------------------------------------------------------------------------
(***************************************************************************)
(* Claims about the risk scores                                            *)
(***************************************************************************)
RiskDone == riskPc = "done"

Metrics == riskOut.detailedMetrics

\* 10 * (0.4 h + 0.3 t + 0.3 l)
WeightedSum10 ==
    4 * Metrics.holderConcentrationScore + 3 * Metrics.transactionPatternScore
        + 3 * Metrics.liquidityScore

C9_Banding ==
    bandPc = "done" =>
        /\ bandScore < 40 => bandLevel = "EXTREMELY HIGH"
        /\ bandScore \in 40..59 => bandLevel = "HIGH"
        /\ bandScore \in 60..79 => bandLevel = "MEDIUM"
        /\ bandScore >= 80 => bandLevel = "LOW"

C9_Witness ==
    /\ bandPc = "done"
    /\ bandScore = 80
    /\ bandLevel = "LOW"

ScoreRange == 0..100

\* C10: whatever the ledger answers (holders, transactions and token data,
\* empty answers and failed fetches included), the holder concentration
\* score, the transaction pattern score and the liquidity score are each in
\* [0, 100], and so is the overall risk score.
C10_ScoresInRange ==
    /\ holderAnalysis # NoAnalysis => holderAnalysis.score \in ScoreRange
    /\ transactionAnalysis # NoAnalysis => transactionAnalysis.score \in ScoreRange
    /\ RiskDone =>
         /\ Metrics.holderConcentrationScore \in ScoreRange
         /\ Metrics.transactionPatternScore \in ScoreRange
         /\ Metrics.liquidityScore \in ScoreRange
         /\ Metrics.overallRiskScore \in ScoreRange

\* A result made when the holders could not be fetched and the token data
\* fetch of the liquidity analysis failed: two scores are at the floor.
C10_Witness ==
    /\ RiskDone
    /\ holdersEmpty
    /\ Metrics.holderConcentrationScore = 0
    /\ Metrics.liquidityScore = 0
    /\ Metrics.transactionPatternScore = 55
    /\ Metrics.overallRiskScore = 17

----------------------------------------------------------------------------
(***************************************************************************)
(* Claims about the warnings of the risk result                            *)
(***************************************************************************)
HolderWarning == "Warning: Could not fetch holder distribution data"

TransactionWarning == "Warning: Could not fetch transaction data"

HasFactor(f) == \E i \in 1..Len(Metrics.riskFactors) : Metrics.riskFactors[i] = f

\* C11 as stated: whenever the holders could not be obtained, and whenever
\* the transactions could not be obtained (the fetch failed or gave an
\* empty list), the riskFactors of the result contain the warning for that
\* data source.
C11_WarningWhenDataMissing ==
    RiskDone =>
        /\ holdersEmpty => HasFactor(HolderWarning)
        /\ (txFetch.failed \/ txFetch.empty) => HasFactor(TransactionWarning)

\* C11, the holder half (holds): a result made without holders carries the
\* holder warning, and a result made with holders does not.
C11_HolderWarning ==
    RiskDone => (holdersEmpty <=> HasFactor(HolderWarning))

\* C11, what the code does for transactions (holds): the transaction
\* warning is never in a result, whether the fetch failed or not.
C11_NoTransactionWarning ==
    RiskDone => ~HasFactor(TransactionWarning)


----------------------------------------------------------------------------
(***************************************************************************)
(* Claims about the ledger helpers                                         *)
(***************************************************************************)
LedgerDone == ledgerPc \in {"returned", "thrown"}

\* The helper was called directly with a valid address and its ledger call
\* failed on every attempt of withRetry.
RetriesExhausted ==
    /\ LedgerDone
    /\ ~outerRetry
    /\ addressValid
    /\ \A i \in 1..DefaultMaxRetries : plan[i] # "ok"

\* C12 as stated: both helpers issue their ledger call under the retry
\* policy, and when it still fails after the last attempt both throw to
\* their caller.
C12_BothPropagate ==
    RetriesExhausted =>
        /\ rpcCalls = DefaultMaxRetries
        /\ ledgerPc = "thrown"

\* C12 amended: both helpers issue their ledger call under the retry
\* policy (three attempts, delays 1000 and 2000 ms); when it still fails,
\* getOnChainTokenData throws the failure of the last attempt to its
\* caller, and getTokenHoldersDistribution returns the empty list.
C12_MetaPropagatesHoldersEmpty ==
    RetriesExhausted =>
        /\ rpcCalls = DefaultMaxRetries
        /\ rpcDelays = <<DefaultDelayMs, 2 * DefaultDelayMs>>
        /\ ledgerFn = "getOnChainTokenData" =>
             /\ ledgerPc = "thrown"
             /\ ledgerOut = NormalizeError(Thrown(plan[DefaultMaxRetries], DefaultMaxRetries))
        /\ ledgerFn = "getTokenHoldersDistribution" =>
             /\ ledgerPc = "returned"
             /\ ledgerOut = Value("[]")

\* getTokenHoldersDistribution returned [] after three failed ledger calls.
C12_Witness ==
    /\ RetriesExhausted
    /\ ledgerFn = "getTokenHoldersDistribution"
    /\ rpcCalls = 3
    /\ ledgerPc = "returned"
    /\ ledgerOut = Value("[]")


----------------------------------------------------------------------------
(***************************************************************************)
(* Claims about getRecentTransactions                                      *)
(***************************************************************************)
\* C13: getRecentTransactions never throws; when nothing failed it returns,
\* whatever the order in which the per-signature fetches completed, one
\* entry per signature in the order of the signatures; when the address is
\* invalid or a ledger call fails it returns the empty list.
C13_OrderedOrEmpty ==
    /\ recentPc # "thrown"
    /\ recentPc = "returned" =>
         IF recentFailed
         THEN recentOut = <<>>
         ELSE /\ Len(recentOut) = Len(signatures)
              /\ \A i \in 1..Len(signatures) :
                    /\ recentOut[i].signature = signatures[i].signature
                    /\ recentOut[i].entry.timestamp = signatures[i].blockTime

\* Three fetches completed in the order 3, 1, 2 and the list returned is in
\* signature order.
C13_Witness ==
    /\ recentPc = "returned"
    /\ ~recentFailed
    /\ completed = <<3, 1, 2>>
    /\ Len(recentOut) = 3
    /\ recentOut[1].signature = "sig1"
    /\ recentOut[3].signature = "sig3"


----------------------------------------------------------------------------
(***************************************************************************)
(* Claims about failures that must not be retried                          *)
(***************************************************************************)
\* The step in which the helper rejects an invalid address.
RejectsInvalidAddress == ledgerPc = "enter" /\ ~addressValid /\ ledgerPc' # "enter"

\* The step in which the helper finds the ledger's answer to hold no value.
FindsNoValue ==
    /\ ledgerPc = "inner" /\ retryPc = "returned"
    /\ ledgerPc' \notin {"inner", "returned"}

C14_NoLedgerCallForInvalidAddress ==
    /\ ~addressValid => (rpcCalls = 0 /\ calls = 0)
    /\ (LedgerDone /\ ~outerRetry) => (validations = 1 /\ outerDelays = <<>>)

\* C14, what the existence check of the risk analysis does (holds): an
\* invalid address is validated three times, with delays of 1000 and
\* 2000 ms, before the failure is thrown.
C14_ExistenceCheckRetriesInvalidAddress ==
    (LedgerDone /\ outerRetry /\ ~addressValid) =>
        /\ ledgerPc = "thrown"
        /\ validations = DefaultMaxRetries
        /\ outerDelays = <<DefaultDelayMs, 2 * DefaultDelayMs>>
        /\ ledgerOut = InvalidAddressError


----------------------------------------------------------------------------
(***************************************************************************)
(* Claims about the failures the actions throw                             *)
(***************************************************************************)
\* Message m contains the whole of message c.
ContainsMessage(m, c) ==
    \E i \in 0..(Len(m) - Len(c)) : SubSeq(m, i + 1, i + Len(c)) = c

C15_MessageKeptExceptExistenceCheck ==
    facadePc = "thrown" =>
        /\ facadeMessage[1] = ActionPrefix(facadeAction)
        /\ \A other \in Actions \ {facadeAction} : ActionPrefix(other) # facadeMessage[1]
        /\ ContainsMessage(facadeMessage, cause) <=> facadeSite # "existenceCheck"


----------------------------------------------------------------------------
(***************************************************************************)
(* Claims about the address activity                                       *)
(***************************************************************************)
\* The positions of the fetched transactions whose timestamp is present and
\* at most `seconds` before the time of the request.
WithinLast(seconds) ==
    {i \in 1..Len(activityTxs) :
        activityTxs[i].timestamp # 0 /\ activityTxs[i].timestamp >= activityNow - seconds}

\* C16: a fetched transaction is counted iff its timestamp is present and
\* >= now minus the look-back of the selected range (24h: 86400 s, 7d:
\* 604800 s, 30d: 2592000 s, 7d when no range is given); the transactions
\* kept are in fetched order; and what is kept for 24h is kept for 7d, and
\* what is kept for 7d is kept for 30d.
C16_TimeFilter ==
    activityPc = "done" =>
        LET kept == CASE timeRange = "24h" -> WithinLast(86400)
                      [] timeRange = "30d" -> WithinLast(2592000)
                      [] OTHER -> WithinLast(604800)
        IN /\ Len(filteredTransactions) = Cardinality(kept)
           /\ \A i \in kept :
                 filteredTransactions[Cardinality({j \in kept : j <= i})] = activityTxs[i]
           /\ activityOut.transactionCount = Cardinality(kept)
           /\ WithinLast(86400) \subseteq WithinLast(604800)
           /\ WithinLast(604800) \subseteq WithinLast(2592000)

\* For "24h", a transaction exactly 86400 s old was counted and one 86401 s
\* old (which 7d would count) was not.
C16_Witness ==
    /\ activityPc = "done"
    /\ timeRange = "24h"
    /\ Len(activityTxs) = 2
    /\ activityTxs[1].timestamp = activityNow - 86401
    /\ activityTxs[2].timestamp = activityNow - 86400
    /\ filteredTransactions = <<activityTxs[2]>>
    /\ 1 \in WithinLast(604800)


----------------------------------------------------------------------------
(***************************************************************************)
(* Claims about requests racing on a cache                                 *)
(***************************************************************************)
TokenFetchSettles(r) ==
    /\ tokenCalls[r].pc = "fetching"
    /\ tokenCalls'[r].pc = "done"
    /\ ~tokenCalls'[r].failed

NewsFetchSettles(r) ==
    /\ news[r].pc = "fetching"
    /\ news'[r].pc = "done"

\* C17: however the requests that refill a cache interleave, the data of
\* a cache and its time of last refresh are written together by one
\* refetch: every step that changes the token list or lastCacheUpdate is
\* the settling of one call, stores the list that call searches and the
\* `now` that call read; every step that changes newsCache is the
\* completion of one call, stores the response of that call and the `now`
\* it read.  Each of the racing requests may have its own fetch in flight.
C17_CacheWrittenByOneRefetch ==
    [][/\ (tokenListCache' # tokenListCache \/ lastCacheUpdate' # lastCacheUpdate)
          => \E r \in TokenCalls :
                 /\ TokenFetchSettles(r)
                 /\ ~tokenListCache'.isNull
                 /\ lastCacheUpdate' = tokenCalls[r].now
                 /\ tokenCalls'[r].out
                      = FindTokenIn(tokenListCache'.list, tokenCalls[r].searchTerm)
       /\ newsCache' # newsCache
          => \E r \in NewsCalls :
                 /\ NewsFetchSettles(r)
                 /\ ~newsCache'.isNull
                 /\ newsCache'.timestamp = news[r].now
                 /\ newsCache'.data = news'[r].out]_vars

\* Two requests found the token list cache expired at different times and
\* each issued its fetch; the later one has settled and the cache holds its
\* list and its time, while the fetch of the earlier one is in flight.
C17_Witness ==
    /\ tokenCalls[1].pc = "fetching"
    /\ tokenCalls[1].fetched
    /\ tokenCalls[2].pc = "done"
    /\ tokenCalls[2].fetched
    /\ ~tokenCalls[2].failed
    /\ tokenCalls[1].now < tokenCalls[2].now
    /\ lastCacheUpdate = tokenCalls[2].now
    /\ tokenCalls[2].out = FindTokenIn(tokenListCache.list, RacingTerm)
    /\ tokenCalls[2].out # NoToken

----------------------------------------------------------------------------
(***************************************************************************)
(* Claims about the daily message limit of the chat page                   *)
(***************************************************************************)
DocumentedDailyLimit == 20

\* C18 as stated: over any sequence of submissions and page reloads within
\* one day, the number of messages sent to the agent is never more than
\* the daily limit of 20.
C18_AtMostTwentyADay == sentToday <= DocumentedDailyLimit

\* C18, what the code does (holds): the number of messages sent in a day is
\* never more than MESSAGE_LIMIT, which is 400, and it is the count stored
\* for the day.
C18_AtMostMessageLimitADay ==
    /\ sentToday <= MESSAGE_LIMIT
    /\ sentToday = getDailyMessageCount(chatStored, Today)

\* The limit of the code has been reached and a further submission was
\* answered with the alert.
C18_LimitReached ==
    /\ sentToday = MESSAGE_LIMIT
    /\ alerted

----------------------------------------------------------------------------
(***************************************************************************)
(* Claims about the backoff of withRetry                                   *)
(***************************************************************************)
\* The waits taken so far are delayMs, 2 * delayMs, 3 * delayMs, ...
LinearDelays == \A n \in 1..Len(delays) : delays[n] = delayMs * n

\* C19: the backoff of withRetry is linear.  The wait taken after the
\* failure of attempt n is delayMs * n; attempt n + 1 starts after exactly
\* the waits of the attempts 1..n; no wait follows the failure of the last
\* attempt; and with the defaults (3 attempts, 1000 ms) an operation that
\* always fails is delayed by 1000 ms, then by 2000 ms, before the failure
\* is raised.
C19_LinearBackoff ==
    /\ LinearDelays
    /\ retryPc \in {"test", "call"} => Len(delays) = attempt - 1 /\ calls = attempt - 1
    /\ retryPc = "sleep" => Len(delays) = attempt - 1 /\ calls = attempt /\ attempt < maxRetries
    /\ retryPc \in {"returned", "thrown"} /\ calls > 0 => Len(delays) = calls - 1
    /\ (/\ retryPc = "thrown"
        /\ maxRetries = DefaultMaxRetries
        /\ delayMs = DefaultDelayMs) => delays = <<1000, 2000>>

\* Four attempts with the default delay have all failed: three waits were
\* taken, the third of them 3000 ms, and none after the last failure.
C19_Witness ==
    /\ retryPc = "thrown"
    /\ maxRetries = 4
    /\ delayMs = DefaultDelayMs
    /\ calls = 4
    /\ delays = <<1000, 2000, 3000>>

----------------------------------------------------------------------------
(***************************************************************************)
(* Claims about the holder concentration score                             *)
(***************************************************************************)
Balances == [i \in 1..Len(holdersArg) |-> holdersArg[i].balance]

FirstTenBalances ==
    [i \in 1..(IF Len(holdersArg) < 10 THEN Len(holdersArg) ELSE 10) |-> holdersArg[i].balance]

\* The share of the first holder is more than k percent of the supply.
TopShareAbove(k) ==
    SumSeq(Balances) > 0 /\ 100 * holdersArg[1].balance > k * SumSeq(Balances)

\* The share of the first ten holders together is more than k percent.
TopTenShareAbove(k) ==
    SumSeq(Balances) > 0 /\ 100 * SumSeq(FirstTenBalances) > k * SumSeq(Balances)

\* C20: for no holders the score is 0 and the only factor is "No holder
\* data available".  Otherwise the score is 100, less 30 if the top holder
\* has more than 50% or else 20 if more than 30%, and less 25 if the first
\* ten holders together have more than 90% or else 15 if more than 70%;
\* each of the two deductions is made whether or not the other is; the
\* factors are one for each deduction made, the top holder's first; so a
\* top holder above 50% gives a score of at most 70 and the factor of an
\* extreme concentration.
C20_HolderConcentrationScore ==
    holderPc = "done" =>
        IF Len(holdersArg) = 0
        THEN /\ holderOut.score = 0
             /\ holderOut.factors = <<"No holder data available">>
        ELSE LET top == IF TopShareAbove(50) THEN 30
                        ELSE IF TopShareAbove(30) THEN 20 ELSE 0
                 topTen == IF TopTenShareAbove(90) THEN 25
                           ELSE IF TopTenShareAbove(70) THEN 15 ELSE 0
                 topFactor == IF top = 30 THEN <<"Extreme concentration: Top holder owns">>
                              ELSE IF top = 20 THEN <<"High concentration: Top holder owns">>
                              ELSE <<>>
                 topTenFactor == IF topTen = 25 THEN <<"Extreme top 10 concentration">>
                                 ELSE IF topTen = 15 THEN <<"High top 10 concentration">>
                                 ELSE <<>>
             IN /\ holderOut.score = 100 - top - topTen
                /\ holderOut.factors = topFactor \o topTenFactor
                /\ TopShareAbove(50) =>
                       /\ holderOut.score <= 70
                       /\ holderOut.factors[1] = "Extreme concentration: Top holder owns"

\* Twenty holders of which the first has more than half of the supply and
\* the first ten between 70% and 90%: both deductions are made, 30 and 15.
C20_Witness ==
    /\ holderPc = "done"
    /\ Len(holdersArg) = 20
    /\ TopShareAbove(50)
    /\ TopTenShareAbove(70)
    /\ ~TopTenShareAbove(90)
    /\ holderOut.score = 55
    /\ holderOut.factors = <<"Extreme concentration: Top holder owns",
                             "High top 10 concentration">>

----------------------------------------------------------------------------
(***************************************************************************)
(* Claims about the liquidity score                                        *)
(***************************************************************************)
\* The sum of the absolute amounts, in tenths of a SOL.
TotalAbsVolume == SumSeq([i \in 1..Len(txList) |-> Abs(txList[i].amount)])

\* The average absolute amount is less than k tenths of a SOL (the average
\* over no transactions is 0).
AvgVolumeBelow(k) ==
    IF Len(txList) = 0 THEN 0 < k ELSE TotalAbsVolume < k * Len(txList)

\* From the first transaction back to the last, in seconds.
ObservedSpan ==
    IF Len(txList) = 0 THEN 0 ELSE txList[1].timestamp - txList[Len(txList)].timestamp

\* The transactions per day are less than k: none is 0 a day, some in no
\* time are more than any k, and a negative span gives a negative rate.
TxPerDayBelow(k) ==
    \/ Len(txList) = 0
    \/ Len(txList) > 0 /\ ObservedSpan < 0
    \/ Len(txList) > 0 /\ ObservedSpan > 0
          /\ Len(txList) * SECONDS_PER_DAY < k * ObservedSpan

ProgramIds == UNION {txList[i].programIds : i \in 1..Len(txList)}

LiquidityDone == analysisPc = "done" /\ mintInfo # NoTokenData

VolumePoints == IF AvgVolumeBelow(1) THEN 20 ELSE IF AvgVolumeBelow(10) THEN 10 ELSE 0

AuthorityPoints ==
    (IF mintInfo.mintAuthority # "null" THEN 25 ELSE 0)
    + (IF mintInfo.freezeAuthority # "null" THEN 15 ELSE 0)

DiversityPoints == IF Cardinality(ProgramIds) < 3 THEN 10 ELSE 0

\* C21 as stated: the liquidity score is 100 less every deduction that
\* matches - 20 for an average absolute volume under 0.1 SOL or else 10
\* under 1 SOL; 15 for less than 1 transaction a day or else 5 for less
\* than 10; 25 for a mint authority; 15 for a freeze authority; 10 for
\* fewer than 3 program ids - for every transaction list, the empty one
\* included; and when the token data cannot be fetched the score is 0 with
\* exactly one factor.
C21_EveryDeductionOnEveryList ==
    LiquidityDone =>
        IF mintInfo.kind = "ok"
        THEN analysisOut.score =
                 100 - VolumePoints
                     - (IF TxPerDayBelow(1) THEN 15 ELSE IF TxPerDayBelow(10) THEN 5 ELSE 0)
                     - AuthorityPoints - DiversityPoints
        ELSE analysisOut.score = 0 /\ Len(analysisOut.factors) = 1

\* C21, what the code does (holds): as stated, except that no deduction is
\* made for the frequency when there are no transactions.
C21_NoFrequencyDeductionOnEmptyList ==
    LiquidityDone =>
        IF mintInfo.kind = "ok"
        THEN analysisOut.score =
                 100 - VolumePoints
                     - (IF Len(txList) = 0 THEN 0
                        ELSE IF TxPerDayBelow(1) THEN 15
                        ELSE IF TxPerDayBelow(10) THEN 5 ELSE 0)
                     - AuthorityPoints - DiversityPoints
        ELSE analysisOut.score = 0 /\ Len(analysisOut.factors) = 1

----------------------------------------------------------------------------
(***************************************************************************)
(* Claims about the transaction pattern score                              *)
(***************************************************************************)
PatternDone == analysisPc = "done" /\ mintInfo = NoTokenData

FailedCount == Cardinality({i \in 1..Len(txList) : txList[i].status = "Failed"})

TransferCount == Cardinality({i \in 1..Len(txList) : txList[i].type = "Token Transfer"})

\* From the first transaction back to the last, in seconds; 0 for fewer
\* than two transactions.
PatternSpan ==
    IF Len(txList) > 1 THEN txList[1].timestamp - txList[Len(txList)].timestamp ELSE 0

FailedPoints == IF 5 * FailedCount > Len(txList) THEN 20 ELSE 0

TransferPoints == IF 5 * TransferCount > 4 * Len(txList) THEN 15 ELSE 0

RatePoints == IF PatternSpan > 0 /\ 10 * Len(txList) > PatternSpan THEN 10 ELSE 0

----------------------------------------------------------------------------
(***************************************************************************)
(* Claims about the trending topics                                        *)
(***************************************************************************)
TrendingDone == trendingPc = "done"

CountedWords == {wordFrequency.keys[i] : i \in 1..Len(wordFrequency.keys)}

CountOf(w) == wordFrequency.counts[KeyIndex(wordFrequency, w)]

\* w was counted for the first time before v was.
EncounteredBefore(w, v) == KeyIndex(wordFrequency, w) < KeyIndex(wordFrequency, v)

Returned == {topics[k] : k \in 1..Len(topics)}

\* At most 5 different words, each counted, none a stop word or of 3
\* letters or fewer, in descending order of count, and no word left out
\* that has a greater count than a word returned.
TopFiveByCount ==
    /\ Len(topics) <= 5
    /\ Len(topics) = (IF Cardinality(CountedWords) < 5 THEN Cardinality(CountedWords) ELSE 5)
    /\ Cardinality(Returned) = Len(topics)
    /\ \A w \in Returned : w \in CountedWords /\ w \notin StopWords /\ Len(w) > 3
    /\ \A k \in 1..(Len(topics) - 1) : CountOf(topics[k]) >= CountOf(topics[k + 1])
    /\ \A w \in CountedWords \ Returned : \A v \in Returned : CountOf(w) <= CountOf(v)

\* C23 as stated: the trending topics are the top 5 words by count, and
\* among words of equal count the one encountered first comes first (and is
\* the one returned), whatever the words are made of, digits included.
C23_TiesByFirstEncounter ==
    TrendingDone =>
        /\ TopFiveByCount
        /\ \A j \in 1..Len(topics) : \A k \in (j + 1)..Len(topics) :
               CountOf(topics[j]) = CountOf(topics[k])
                   => EncounteredBefore(topics[j], topics[k])
        /\ \A w \in CountedWords \ Returned : \A v \in Returned :
               CountOf(w) = CountOf(v) => EncounteredBefore(v, w)

\* C23, what the code does (holds): the top 5 words by count; among words
\* of equal count those made of digits come first, in ascending numeric
\* order, and the others follow in the order they were encountered.
C23_TiesByPropertyOrder ==
    TrendingDone =>
        /\ TopFiveByCount
        /\ \A j \in 1..Len(topics) : \A k \in (j + 1)..Len(topics) :
               CountOf(topics[j]) = CountOf(topics[k])
                   => IF ArrayIndex(topics[j]) >= 0 /\ ArrayIndex(topics[k]) >= 0
                      THEN ArrayIndex(topics[j]) < ArrayIndex(topics[k])
                      ELSE IF ArrayIndex(topics[j]) >= 0 \/ ArrayIndex(topics[k]) >= 0
                      THEN ArrayIndex(topics[j]) >= 0
                      ELSE EncounteredBefore(topics[j], topics[k])

----------------------------------------------------------------------------
(***************************************************************************)
(* Claims about the type of a transaction                                  *)
(***************************************************************************)
\* Some log message contains one of the words ks, whatever its case.
LogsMention(ks) ==
    /\ logMessages # NoLogs
    /\ \E i \in 1..Len(logMessages) : \E k \in ks :
           Includes(ToLowerCase(logMessages[i]), k)

\* C24: the type is the first that matches, in the order DeFi, NFT, Token
\* Transfer, Unknown: DeFi when the logs contain swap or liquidity, even
\* with NFT or token words present; NFT when they contain nft or mint and
\* no DeFi word; Token Transfer when they contain token or transfer and
\* none of the others; Unknown when there are no logs or no such word; the
\* case of the letters in the logs does not matter.
C24_FirstMatchWins ==
    classifyPc = "done" =>
        txType = (IF LogsMention({"swap", "liquidity"}) THEN "DeFi"
                  ELSE IF LogsMention({"nft", "mint"}) THEN "NFT"
                  ELSE IF LogsMention({"token", "transfer"}) THEN "Token Transfer"
                  ELSE "Unknown")

\* Logs with an NFT word and, in capitals, a DeFi word: the type is DeFi.
C24_Witness ==
    /\ classifyPc = "done"
    /\ logMessages = <<"MintNft", "ADD LIQUIDITY">>
    /\ txType = "DeFi"

----------------------------------------------------------------------------
(***************************************************************************)
(* Claims about the percentages of the holders                             *)
(***************************************************************************)
\* The percentage is a number (not NaN) from 0 to 100.
IsPercentage(p) == p.den > 0 /\ 0 <= p.num /\ p.num <= 100 * p.den

\* The percentages, all over the same supply, add up to 100.
PercentagesSumTo100 ==
    /\ \A i \in 1..Len(holdersArg) : holdersArg[i].percentage.den > 0
    /\ SumSeq([i \in 1..Len(holdersArg) |-> holdersArg[i].percentage.num])
         = 100 * holdersArg[1].percentage.den

\* C25 as stated: for every non-empty list of holders returned, each
\* percentage is 100 * balance / (the sum of the balances returned), a
\* number from 0 to 100, and the percentages add up to 100, also when every
\* balance is 0.
C25_PercentagesOfSupply ==
    Len(holdersArg) > 0 =>
        /\ \A i \in 1..Len(holdersArg) :
               /\ holdersArg[i].percentage
                    = Ratio(100 * holdersArg[i].balance, SumSeq(Balances))
               /\ IsPercentage(holdersArg[i].percentage)
        /\ PercentagesSumTo100

\* C25, what the code does (holds): when some balance is positive the
\* percentages are numbers from 0 to 100 that add up to 100; when every
\* balance is 0 every percentage is 0 / 0, which is NaN.
C25_PercentagesUnlessSupplyIsZero ==
    Len(holdersArg) > 0 =>
        /\ \A i \in 1..Len(holdersArg) :
               holdersArg[i].percentage = Ratio(100 * holdersArg[i].balance, SumSeq(Balances))
        /\ IF SumSeq(Balances) > 0
           THEN /\ \A i \in 1..Len(holdersArg) : IsPercentage(holdersArg[i].percentage)
                /\ PercentagesSumTo100
           ELSE \A i \in 1..Len(holdersArg) :
                    holdersArg[i].percentage = Ratio(0, 0)

----------------------------------------------------------------------------
(***************************************************************************)
(* Claims about the articles deduplication removes                         *)
(***************************************************************************)
\* allArticles of line 674, from which uniqueArticles was filtered.
SortedArticles == AllArticles(cryptoNews, web3News)

KeptArticles == {uniqueArticles[k] : k \in 1..Len(uniqueArticles)}

\* C26 as stated: an article is removed only when an article that is kept
\* duplicates it: every article of the merged list that is not in the
\* result has the URL, or but for case the title, of one that is.
C26_RemovedOnlyForKeptDuplicate ==
    dedupPc = "done" =>
        \A i \in 1..Len(SortedArticles) :
            SortedArticles[i] \notin KeptArticles
                => \E y \in KeptArticles : Duplicates(SortedArticles[i], y)

\* C26, what the code does (holds): every article removed duplicates an
\* article before it in the sorted list, which may itself have been
\* removed.
C26_RemovedForEarlierArticle ==
    dedupPc = "done" =>
        \A i \in 1..Len(SortedArticles) :
            SortedArticles[i] \notin KeptArticles
                => \E j \in 1..(i - 1) : Duplicates(SortedArticles[i], SortedArticles[j])

----------------------------------------------------------------------------
(***************************************************************************)
(* Claims about the order of the writes to a cache                         *)
(***************************************************************************)
\* C27 as stated: however concurrent refills interleave, the time of last
\* refresh of a cache never decreases: an entry is never replaced by the
\* result of a request that started before the request that wrote it.
C27_LastRefreshNeverDecreases ==
    [][/\ lastCacheUpdate' >= lastCacheUpdate
       /\ (~newsCache.isNull /\ ~newsCache'.isNull)
              => newsCache'.timestamp >= newsCache.timestamp]_vars

\* C27, what the code does (holds): a fetch that settles writes the cache
\* whatever the cache holds, so the time of last refresh becomes the `now`
\* of the call that settled last, earlier or not.
C27_LastSettledWins ==
    [][/\ \A r \in TokenCalls :
             TokenFetchSettles(r) => lastCacheUpdate' = tokenCalls[r].now
       /\ \A r \in NewsCalls :
             NewsFetchSettles(r) => newsCache'.timestamp = news[r].now]_vars

----------------------------------------------------------------------------
(***************************************************************************)
(* Claims about the snapshot one risk analysis scores                      *)
(***************************************************************************)
\* C28 as stated: one risk analysis scores a single snapshot of the
\* ledger: the liquidity score is made from the token data the existence
\* check found, and from the transaction list the transaction pattern
\* score was made from, even when the answers of the ledger change or start
\* to fail while the request is in flight.
C28_SingleSnapshot ==
    RiskDone =>
        /\ tokenData # NoTokenData
        /\ liquidityTxFetch = txFetch

\* C28, what the code does (holds): a result is made only after the
\* existence check found the token, but the liquidity analysis fetches the
\* token data and the transactions again: its token data fetch may fail,
\* and then it scores 0 and fetches no transactions.
C28_LiquidityFetchesAgain ==
    RiskDone =>
        /\ ~riskOut.isError
        /\ tokenData = NoTokenData =>
               /\ Metrics.liquidityScore = 0
               /\ liquidityTxFetch = NoTxFetch

----------------------------------------------------------------------------
(***************************************************************************)
(* Claims about the ledger queries of the existence check                  *)
(***************************************************************************)
\* The queries made so far: those of the calls of the helper that have
\* ended, and those of the call in progress.
QueriesIssued == rpcCalls + (IF ledgerPc = "inner" THEN calls ELSE 0)

\* C29 as stated: the existence check of one risk analysis issues the
\* parsed-account-info query at most 3 times, however often it fails,
\* before the failure is thrown.
C29_AtMostThreeQueries ==
    outerRetry => QueriesIssued <= DefaultMaxRetries

\* C29, what the code does (holds): the existence check calls the helper
\* up to 3 times and each call issues the query up to 3 times; when the
\* query keeps failing, 9 queries are issued before the failure is thrown.
C29_UpToNineQueries ==
    outerRetry =>
        /\ QueriesIssued <= DefaultMaxRetries * DefaultMaxRetries
        /\ (/\ ledgerPc = "thrown"
            /\ addressValid
            /\ \A i \in 1..DefaultMaxRetries : plan[i] # "ok")
               => rpcCalls >= DefaultMaxRetries

----------------------------------------------------------------------------
(***************************************************************************)
(* Claims about the deletion of a chat                                     *)
(***************************************************************************)
\* C30 as stated: after the user has confirmed the deletion of a chat and
\* the page is reloaded (every pending save having run before the reload),
\* the deleted chat is not in the list of chat histories, whichever chat it
\* was, the only one included, and it is not the current chat.
C30_DeletionIsDurable ==
    (reloaded /\ ~unsavedLost) =>
        \A chatId \in deletedChats :
            /\ chatId \notin ChatIdsOf(chatHistories)
            /\ currentChatId # chatId

\* C30, what the code does (holds): a reload shows the stored list, and
\* the stored list is never the empty one, so that the deletion of the last
\* chat of the list is not stored; the current chat is always a chat of
\* the list, so a deleted chat is current only once it is listed again.
C30_EmptyListIsNeverStored ==
    /\ storedChatHistories.present => Len(storedChatHistories.list) > 0
    /\ reloaded => chatHistories = storedChatHistories.list
    /\ (chatHistories = <<>> /\ ~reloaded) => ~saveChatsTimer.pending
    /\ currentChatId # Undefined => currentChatId \in ChatIdsOf(chatHistories)
====
